---- MODULE Spec2Model ----
(***************************************************************************)
(* A model of the command-line utilities of ai_agent_dotfiles.             *)
(*                                                                         *)
(* Every script is one process per invocation: it parses its arguments,    *)
(* makes a few external calls (subprocesses, HTTP requests) and exits with *)
(* a status.  The external parties are the environment: each external call *)
(* is one action whose outcome is chosen nondeterministically.             *)
(*                                                                         *)
(*   SpecMerge    merge_extractions applied to every pair of inputs        *)
(*   SpecConvert  one invocation of convert-to-markdown/scripts/convert.py *)
(*   SpecCli      one invocation of confluence.py or jira.py               *)
(*   SpecGws      one invocation of google-workspace-convert's convert.py  *)
(*   SpecImage    one invocation of generate-image/scripts/generate.py     *)
(*   SpecUpdateRace  two invocations of confluence.py update on one page    *)
(*   SpecJiraError   JiraClient._request on every HTTP error body           *)
(*   SpecExtract     extract_file_id applied to IDs and URLs                *)
(***************************************************************************)
EXTENDS Integers, Sequences, FiniteSets, TLC

VARIABLES
    prog,          \* which script (or function harness) this process runs
    argv,          \* the parsed command line
    env,           \* the environment variables the script reads
    session,       \* confluence.py / jira.py: the requests.Session of the client
    pc,            \* the position of the process in its code
    calls,         \* the external calls made so far, in order, with their results
    printed,       \* the messages printed so far, in order
    exit_status,   \* {} while the process runs, {n} once it has exited with n
    out_file,      \* the content of the output file; NotWritten until written
    text_content,  \* convert.py: the direct text extraction
    ocr_content,   \* convert.py: the OCR extraction
    md_content,    \* convert.py: the markdown that is returned / written
    server         \* the Confluence page as the server holds it (SpecUpdateRace)

vars == <<prog, argv, env, session, pc, calls, printed, exit_status, out_file,
          text_content, ocr_content, md_content, server>>

----------------------------------------------------------------------------
(* Bounds of the model.                                                    *)

\* Longest text / OCR extraction handed to merge_extractions in SpecMerge.
MaxLen == 6
\* Longest output a converter subprocess or library call produces in SpecConvert.
MaxOut == 2
\* Longest output of pandoc in markdown_to_storage in SpecCli.
MaxStorage == 1
\* Highest version number a page has when update reads it in SpecCli.
MaxVersion == 2
\* Most entries of errorMessages, and of errors, in an error body in SpecJiraError.
MaxErrors == 2
\* Longest ID (or stand-in for one) in an argument of extract_file_id in
\* SpecExtract.
MaxIdLen == 22
\* Most chunks a Drive download is read in, in SpecGws.
MaxChunks == 2
\* Most parts a candidate of a response has in SpecImage.
MaxParts == 2

----------------------------------------------------------------------------
(* Python values.  A str is the sequence of its characters.                *)

None == [kind |-> "None", chars |-> <<>>, exc |-> ""]
Str(s) == [kind |-> "str", chars |-> s, exc |-> ""]
Raise(e) == [kind |-> "raise", chars |-> <<>>, exc |-> e]
\* A local variable that has not been assigned yet.
Unset == [kind |-> "unset", chars |-> <<>>, exc |-> ""]
\* The output file before out.write_text ran.
NotWritten == [kind |-> "absent", chars |-> <<>>, exc |-> ""]
\* No client has been constructed: the process has no requests.Session.
NoSession == [authorization |-> "unset", auth |-> "unset"]
\* No server is part of the run.
NoServer == [version |-> 0]

\* Python truthiness of an Optional[str]: None and "" are falsy.
Truthy(v) == v.kind = "str" /\ v.chars # <<>>

\* The characters the model's strings are made of: one printing character and
\* one whitespace character.
Alphabet == {"a", " "}
\* The ASCII characters str.strip() removes.
Whitespace == {" ", "\t", "\n", "\r", "\f"}

StrUpTo(n) == UNION {[1..k -> Alphabet] : k \in 0..n}
OptStr(n) == {None} \cup {Str(s) : s \in StrUpTo(n)}

RECURSIVE lstrip(_)
lstrip(s) == IF s # <<>> /\ Head(s) \in Whitespace THEN lstrip(Tail(s)) ELSE s

RECURSIVE rstrip(_)
rstrip(s) ==
    IF s # <<>> /\ s[Len(s)] \in Whitespace THEN rstrip(SubSeq(s, 1, Len(s) - 1)) ELSE s

strip(s) == rstrip(lstrip(s))

----------------------------------------------------------------------------
(* convert.py: merge_extractions                                           *)

\* "\n\n---\n\n## Additional Text Extraction\n\n"
Separator ==
    <<"\n", "\n", "-", "-", "-", "\n", "\n", "#", "#", " ",
      "A", "d", "d", "i", "t", "i", "o", "n", "a", "l", " ",
      "T", "e", "x", "t", " ",
      "E", "x", "t", "r", "a", "c", "t", "i", "o", "n", "\n", "\n">>

\* ocr_len <= text_len * 1.2.  The float product is exact enough that, for
\* every pair of lengths below 3000, the comparison agrees with 5*ocr <= 6*text.
WithinThreshold(ocr_len, text_len) == 5 * ocr_len <= 6 * text_len

\* Faulty variants of merge_extractions: each differs from it by one plausible slip.
merge_extractions_raw_len(text, ocr) ==
    IF ~Truthy(text) /\ ~Truthy(ocr) THEN Str(<<>>)
    ELSE IF ~Truthy(text) THEN (IF Truthy(ocr) THEN ocr ELSE Str(<<>>))
    ELSE IF ~Truthy(ocr) THEN text
    ELSE IF WithinThreshold(Len(ocr.chars), Len(text.chars)) THEN text
    ELSE Str(ocr.chars \o Separator \o text.chars)

merge_extractions_text_first(text, ocr) ==
    IF ~Truthy(text) /\ ~Truthy(ocr) THEN Str(<<>>)
    ELSE IF ~Truthy(text) THEN (IF Truthy(ocr) THEN ocr ELSE Str(<<>>))
    ELSE IF ~Truthy(ocr) THEN text
    ELSE IF WithinThreshold(Len(strip(ocr.chars)), Len(strip(text.chars))) THEN text
    ELSE Str(text.chars \o Separator \o ocr.chars)

merge_extractions_strict(text, ocr) ==
    IF ~Truthy(text) /\ ~Truthy(ocr) THEN Str(<<>>)
    ELSE IF ~Truthy(text) THEN (IF Truthy(ocr) THEN ocr ELSE Str(<<>>))
    ELSE IF ~Truthy(ocr) THEN text
    ELSE IF 5 * Len(strip(ocr.chars)) < 6 * Len(strip(text.chars)) THEN text
    ELSE Str(ocr.chars \o Separator \o text.chars)

merge_extractions_no_guard(text, ocr) ==
    IF ~Truthy(text) THEN ocr
    ELSE IF ~Truthy(ocr) THEN text
    ELSE IF WithinThreshold(Len(strip(ocr.chars)), Len(strip(text.chars))) THEN text
    ELSE Str(ocr.chars \o Separator \o text.chars)

merge_extractions_wrong_var(text, ocr) ==
    IF ~Truthy(text) /\ ~Truthy(ocr) THEN Str(<<>>)
    ELSE IF ~Truthy(text) THEN (IF Truthy(text) THEN text ELSE Str(<<>>))
    ELSE IF ~Truthy(ocr) THEN text
    ELSE IF WithinThreshold(Len(strip(ocr.chars)), Len(strip(text.chars))) THEN text
    ELSE Str(ocr.chars \o Separator \o text.chars)

merge_extractions_returns_stripped(text, ocr) ==
    IF ~Truthy(text) /\ ~Truthy(ocr) THEN Str(<<>>)
    ELSE IF ~Truthy(text) THEN (IF Truthy(ocr) THEN ocr ELSE Str(<<>>))
    ELSE IF ~Truthy(ocr) THEN text
    ELSE IF WithinThreshold(Len(strip(ocr.chars)), Len(strip(text.chars)))
    THEN Str(strip(text.chars))
    ELSE Str(ocr.chars \o Separator \o text.chars)

merge_extractions(text, ocr) ==
    IF ~Truthy(text) /\ ~Truthy(ocr) THEN Str(<<>>)
    ELSE IF ~Truthy(text) THEN (IF Truthy(ocr) THEN ocr ELSE Str(<<>>))
    ELSE IF ~Truthy(ocr) THEN text
    ELSE IF text.kind # "str" \/ ocr.kind # "str" THEN Raise("AttributeError")
    ELSE LET text_len == Len(strip(text.chars))
             ocr_len == Len(strip(ocr.chars))
         IN  IF WithinThreshold(ocr_len, text_len) THEN text
             ELSE Str(ocr.chars \o Separator \o text.chars)

----------------------------------------------------------------------------
(* SpecMerge: merge_extractions called on every pair of optional strings   *)
(* of at most MaxLen characters.                                           *)

NoArgs == [input |-> "", mode |-> "", hybrid |-> FALSE]
NoEnv == [base_url |-> FALSE, pat |-> FALSE, username |-> FALSE, password |-> FALSE]

InitMerge ==
    /\ prog = "merge_extractions"
    /\ argv = NoArgs
    /\ env = NoEnv
    /\ pc = "call"
    /\ calls = <<>>
    /\ printed = <<>>
    /\ exit_status = {}
    /\ out_file = NotWritten
    /\ text_content \in OptStr(MaxLen)
    /\ ocr_content \in OptStr(MaxLen)
    /\ md_content = Unset
    /\ session = NoSession
    /\ server = NoServer

CallMerge ==
    /\ prog = "merge_extractions"
    /\ pc = "call"
    /\ md_content' = merge_extractions(text_content, ocr_content)
    /\ pc' = "returned"
    /\ UNCHANGED <<prog, server, argv, env, session, calls, printed, exit_status, out_file,
                   text_content, ocr_content>>

NextMerge == CallMerge

SpecMerge == InitMerge /\ [][NextMerge]_vars

----------------------------------------------------------------------------
(* convert.py: one invocation of the convert-to-markdown script.           *)

UpperCase == <<"A", "B", "C", "D", "E", "F", "G", "H", "I", "J", "K", "L", "M",
               "N", "O", "P", "Q", "R", "S", "T", "U", "V", "W", "X", "Y", "Z">>
LowerCase == <<"a", "b", "c", "d", "e", "f", "g", "h", "i", "j", "k", "l", "m",
               "n", "o", "p", "q", "r", "s", "t", "u", "v", "w", "x", "y", "z">>

\* str.lower() on ASCII text.
lower_char(c) ==
    IF \E i \in 1..Len(UpperCase) : UpperCase[i] = c
    THEN LowerCase[CHOOSE i \in 1..Len(UpperCase) : UpperCase[i] = c]
    ELSE c
lower(s) == [i \in 1..Len(s) |-> lower_char(s[i])]

PANDOC_FORMATS ==
    {<<".", "e", "p", "u", "b">>,
     <<".", "o", "r", "g">>,
     <<".", "r", "s", "t">>,
     <<".", "t", "e", "x">>,
     <<".", "l", "a", "t", "e", "x">>,
     <<".", "o", "d", "t">>,
     <<".", "r", "t", "f">>}

ImageSuffixes ==
    {<<".", "j", "p", "g">>,
     <<".", "j", "p", "e", "g">>,
     <<".", "p", "n", "g">>,
     <<".", "g", "i", "f">>,
     <<".", "w", "e", "b", "p">>}

Docx == <<".", "d", "o", "c", "x">>
Pdf == <<".", "p", "d", "f">>

\* The values of path.suffix the invocations of the model are given, as typed.
Suffixes ==
    {<<".", "e", "p", "u", "b">>,
     <<".", "o", "r", "g">>,
     <<".", "r", "s", "t">>,
     <<".", "t", "e", "x">>,
     <<".", "l", "a", "t", "e", "x">>,
     <<".", "o", "d", "t">>,
     <<".", "r", "t", "f">>,
     <<".", "E", "P", "U", "B">>,
     <<".", "R", "s", "t">>,
     <<".", "T", "e", "X">>,
     <<".", "O", "D", "T">>,
     <<".", "p", "d", "f">>,
     <<".", "P", "D", "F">>,
     <<".", "d", "o", "c", "x">>,
     <<".", "h", "t", "m", "l">>,
     <<".", "p", "n", "g">>,
     <<".", "J", "P", "G">>,
     <<".", "w", "e", "b", "p">>,
     <<".", "m", "d">>,
     <<".", "t", "x", "t">>,
     <<>>}

Modes == {"auto", "ocr", "text"}

\* args = parser.parse_args(), with what the file system holds at args.input:
\* an existing file, nothing, or a Google Docs URL.
ConvertArgs ==
    {a \in [input : {"file", "missing", "gdoc_url"}, suffix : Suffixes,
            mode : Modes, hybrid : BOOLEAN] :
        a.input = "gdoc_url" => a.suffix = <<>>}

\* What the pandoc subprocess can do.
PandocOutcomes ==
    [kind : {"exit0"}, stdout : StrUpTo(MaxOut)]
        \cup [kind : {"nonzero", "missing", "timeout", "permission_denied"},
              stdout : {<<>>}]

\* What MarkItDown(...).convert can do.
MarkitdownOutcomes ==
    [kind : {"ok"}, stdout : StrUpTo(MaxOut)] \cup [kind : {"exception"}, stdout : {<<>>}]

\* What the curl subprocess of download_gdoc can do.
CurlOutcomes == {"ok", "empty_file", "nonzero", "missing", "timeout"}

\* Faulty variant of run_pandoc: the TimeoutExpired handler is missing.
run_pandoc_timeout_uncaught(o) ==
    CASE o.kind = "exit0" -> Str(o.stdout)
      [] o.kind = "nonzero" -> None
      [] o.kind = "missing" -> None
      [] OTHER -> Raise("TimeoutExpired")

\* run_pandoc's result: stdout when pandoc exits 0, None when it exits non-zero,
\* is not installed or times out; any other error of subprocess.run is not
\* caught and leaves run_pandoc as an exception.
run_pandoc(o) ==
    CASE o.kind = "exit0" -> Str(o.stdout)
      [] o.kind = "nonzero" -> None
      [] o.kind = "missing" -> None
      [] o.kind = "timeout" -> None
      [] OTHER -> Raise("PermissionError")

run_pandoc_prints(o) ==
    CASE o.kind = "nonzero" -> <<"Pandoc warning">>
      [] o.kind = "missing" -> <<"Pandoc not found, skipping pandoc conversion">>
      [] o.kind = "timeout" -> <<"Pandoc timed out">>
      [] OTHER -> <<>>

\* run_markitdown's result: the text, or None on any exception.
run_markitdown(o) == IF o.kind = "ok" THEN Str(o.stdout) ELSE None

run_markitdown_prints(o) == IF o.kind = "ok" THEN <<>> ELSE <<"Markitdown error">>

PandocCall(o) ==
    [callee |-> "pandoc", enable_ocr |-> FALSE, outcome |-> o.kind, ret |-> run_pandoc(o)]
MarkitdownCall(o, enable_ocr) ==
    [callee |-> "markitdown", enable_ocr |-> enable_ocr, outcome |-> o.kind,
     ret |-> run_markitdown(o)]
CurlCall(o) ==
    [callee |-> "curl", enable_ocr |-> FALSE, outcome |-> o, ret |-> None]

\* path.suffix of the file handed to convert_file_content: the input's, or
\* that of the downloaded gdoc_<id>.docx.
PathSuffix == IF argv.input = "gdoc_url" THEN Docx ELSE argv.suffix

\* Faulty variant of RoutedSuffix: the .lower() is missing.
RoutedSuffix_case_sensitive == PathSuffix

\* suffix = path.suffix.lower()
RoutedSuffix == lower(PathSuffix)

Md == <<".", "m", "d">>

\* Path.with_suffix(suffix): the same name with its extension replaced.
with_suffix(path, suffix) == [path EXCEPT !.suffix = suffix]

\* path = Path(input_path): the input file's name, split as pathlib splits it.
InputPath == [stem |-> "doc", suffix |-> argv.suffix]

\* The file convert_file writes when no output path is given: next to the
\* input for a file, gdoc_<stem of the download>.md for a Google Docs URL.
OutputPath ==
    IF argv.input = "gdoc_url"
    THEN [stem |-> "gdoc_gdoc_id", suffix |-> Md]
    ELSE with_suffix(InputPath, Md)

\* The position where convert_file_content is entered.
AtConvertFileContent ==
    \/ pc = "main" /\ argv.input = "file"
    \/ pc = "downloaded"

\* Faulty variant of UsesHybrid: the hybrid branch also takes the failed case.
UsesHybrid_any_suffix == argv.hybrid /\ RoutedSuffix \notin PANDOC_FORMATS

\* if suffix == ".pdf" and hybrid
UsesHybrid == RoutedSuffix = Pdf /\ argv.hybrid

\* Faulty variant of EnableOcr: images get OCR in every mode.
EnableOcr_images_any_mode ==
    argv.mode = "ocr" \/ RoutedSuffix \in ImageSuffixes

\* enable_ocr = mode == "ocr" or (mode == "auto" and suffix in {images})
EnableOcr ==
    argv.mode = "ocr" \/ (argv.mode = "auto" /\ RoutedSuffix \in ImageSuffixes)

\* main's handler: except Exception as e: print(f"Error: {e}"); return 1
MainExcept(prints, msg) ==
    /\ printed' = printed \o prints \o <<"Error: " \o msg>>
    /\ exit_status' = {1}
    /\ pc' = "exit"

\* convert_file_content returned content to convert_file.
ReturnContent(prints, content) ==
    /\ printed' = printed \o prints
    /\ md_content' = content
    /\ pc' = "write"

InitConvert ==
    /\ prog = "convert-to-markdown"
    /\ argv \in ConvertArgs
    /\ env = NoEnv
    /\ pc = "main"
    /\ calls = <<>>
    /\ printed = <<>>
    /\ exit_status = {}
    /\ out_file = NotWritten
    /\ text_content = Unset
    /\ ocr_content = Unset
    /\ md_content = Unset
    /\ session = NoSession
    /\ server = NoServer

\* Faulty variant of FileNotFound: the output file is created before the
\* existence check.
FileNotFound_creates_output ==
    /\ pc = "main"
    /\ argv.input = "missing"
    /\ MainExcept(<<>>, "File not found")
    /\ out_file' = Str(<<>>)
    /\ UNCHANGED <<prog, server, argv, env, session, calls, text_content, ocr_content,
                   md_content>>

\* convert_file: the input is no Google Docs URL and does not exist.
FileNotFound ==
    /\ pc = "main"
    /\ argv.input = "missing"
    /\ MainExcept(<<>>, "File not found")
    /\ UNCHANGED <<prog, server, argv, env, session, calls, out_file, text_content, ocr_content,
                   md_content>>

\* convert_file: the input is a Google Docs URL; download_gdoc fetches it.
DownloadGdoc ==
    /\ pc = "main"
    /\ argv.input = "gdoc_url"
    /\ \/ \* no pattern matches the URL: no document id, no download
          /\ MainExcept(<<"Could not extract Google Doc ID from URL">>,
                        "Failed to download Google Doc")
          /\ UNCHANGED calls
       \/ \E o \in CurlOutcomes :
            /\ calls' = Append(calls, CurlCall(o))
            /\ IF o = "ok"
               THEN /\ pc' = "downloaded"
                    /\ UNCHANGED <<printed, exit_status>>
               ELSE MainExcept(<<"Could not download Google Doc">>,
                               "Failed to download Google Doc")
    /\ UNCHANGED <<prog, server, argv, env, session, out_file, text_content, ocr_content, md_content>>

\* convert_file_content, suffix in PANDOC_FORMATS: content = run_pandoc(path)
PandocPrimary ==
    /\ AtConvertFileContent
    /\ RoutedSuffix \in PANDOC_FORMATS
    /\ \E o \in PandocOutcomes :
        LET content == run_pandoc(o) IN
        /\ calls' = Append(calls, PandocCall(o))
        /\ IF content.kind = "raise"
           THEN MainExcept(run_pandoc_prints(o), content.exc) /\ UNCHANGED md_content
           ELSE IF Truthy(content)
           THEN ReturnContent(run_pandoc_prints(o), content) /\ UNCHANGED exit_status
           ELSE /\ printed' = printed \o run_pandoc_prints(o)
                /\ pc' = "pandoc_failed"
                /\ UNCHANGED <<exit_status, md_content>>
    /\ UNCHANGED <<prog, server, argv, env, session, out_file, text_content, ocr_content>>

\* convert_file_content, after pandoc gave nothing: content = run_markitdown(path)
MarkitdownFallback ==
    /\ pc = "pandoc_failed"
    /\ \E o \in MarkitdownOutcomes :
        LET content == run_markitdown(o) IN
        /\ calls' = Append(calls, MarkitdownCall(o, FALSE))
        /\ IF Truthy(content)
           THEN ReturnContent(run_markitdown_prints(o), content) /\ UNCHANGED exit_status
           ELSE MainExcept(run_markitdown_prints(o), "Failed to convert")
                    /\ UNCHANGED md_content
    /\ UNCHANGED <<prog, server, argv, env, session, out_file, text_content, ocr_content>>

\* convert_file_content, PDF with hybrid: text_content = run_markitdown(path, False)
HybridText ==
    /\ AtConvertFileContent
    /\ RoutedSuffix \notin PANDOC_FORMATS
    /\ UsesHybrid
    /\ \E o \in MarkitdownOutcomes :
        /\ calls' = Append(calls, MarkitdownCall(o, FALSE))
        /\ text_content' = run_markitdown(o)
        /\ printed' = printed \o <<"Running hybrid extraction (text + OCR)...">>
                              \o run_markitdown_prints(o)
    /\ pc' = "hybrid_ocr"
    /\ UNCHANGED <<prog, server, argv, env, session, exit_status, out_file, ocr_content, md_content>>

\* convert_file_content, PDF with hybrid: ocr_content = run_markitdown(path, True);
\* return merge_extractions(text_content, ocr_content)
HybridOcr ==
    /\ pc = "hybrid_ocr"
    /\ \E o \in MarkitdownOutcomes :
        /\ calls' = Append(calls, MarkitdownCall(o, TRUE))
        /\ ocr_content' = run_markitdown(o)
        /\ ReturnContent(run_markitdown_prints(o),
                         merge_extractions(text_content, run_markitdown(o)))
    /\ UNCHANGED <<prog, server, argv, env, session, exit_status, out_file, text_content>>

\* convert_file_content, standard conversion: content = run_markitdown(path, enable_ocr)
MarkitdownPrimary ==
    /\ AtConvertFileContent
    /\ RoutedSuffix \notin PANDOC_FORMATS
    /\ ~UsesHybrid
    /\ \E o \in MarkitdownOutcomes :
        LET content == run_markitdown(o) IN
        /\ calls' = Append(calls, MarkitdownCall(o, EnableOcr))
        /\ IF Truthy(content)
           THEN ReturnContent(run_markitdown_prints(o), content)
           ELSE /\ printed' = printed \o run_markitdown_prints(o)
                /\ pc' = "markitdown_failed"
                /\ UNCHANGED md_content
    /\ UNCHANGED <<prog, server, argv, env, session, exit_status, out_file, text_content, ocr_content>>

\* convert_file_content, after markitdown gave nothing: content = run_pandoc(path)
PandocFallback ==
    /\ pc = "markitdown_failed"
    /\ \E o \in PandocOutcomes :
        LET content == run_pandoc(o) IN
        /\ calls' = Append(calls, PandocCall(o))
        /\ IF content.kind = "raise"
           THEN MainExcept(run_pandoc_prints(o), content.exc) /\ UNCHANGED md_content
           ELSE IF Truthy(content)
           THEN ReturnContent(run_pandoc_prints(o), content) /\ UNCHANGED exit_status
           ELSE MainExcept(run_pandoc_prints(o), "Failed to convert")
                    /\ UNCHANGED md_content
    /\ UNCHANGED <<prog, server, argv, env, session, out_file, text_content, ocr_content>>

\* convert_file: out.write_text(md_content); print("Converted to: ..."); main
\* returns 0.  A write the file system refuses raises OSError into main.
WriteOutput ==
    /\ pc = "write"
    /\ \/ /\ out_file' = md_content
          /\ printed' = Append(printed, "Converted to")
          /\ exit_status' = {0}
          /\ pc' = "exit"
       \/ /\ MainExcept(<<>>, "OSError")
          /\ UNCHANGED out_file
    /\ UNCHANGED <<prog, server, argv, env, session, calls, text_content, ocr_content, md_content>>

NextConvert ==
    \/ FileNotFound
    \/ DownloadGdoc
    \/ PandocPrimary
    \/ MarkitdownFallback
    \/ HybridText
    \/ HybridOcr
    \/ MarkitdownPrimary
    \/ PandocFallback
    \/ WriteOutput

SpecConvert == InitConvert /\ [][NextConvert]_vars

----------------------------------------------------------------------------
(* confluence.py and jira.py: one invocation of either Typer application.  *)

\* The environment: which of <TOOL>_BASE_URL, _PAT, _USERNAME, _PASSWORD are
\* set to a non-empty value.
Environments == [base_url : BOOLEAN, pat : BOOLEAN, username : BOOLEAN, password : BOOLEAN]

DefaultArgs(cmd) ==
    [cmd |-> cmd, page_id |-> TRUE, space_title |-> FALSE, title |-> None,
     body |-> "none", force |-> FALSE, upload |-> "none", format |-> "markdown",
     status |-> <<>>]

\* --body / --body-file as given: absent, --body "", --body TEXT, a file with
\* text, an empty file, a file that cannot be read.
Bodies == {"none", "empty", "text", "file", "file_empty", "file_missing"}
\* --title of update as given: absent, "", a new title.
NewTitles == {None, Str(<<>>), Str(<<"N">>)}

\* The command lines of confluence.py that differ in control flow.
ConfluenceArgs ==
    {[DefaultArgs("get") EXCEPT !.page_id = p, !.space_title = st] :
        p \in BOOLEAN, st \in BOOLEAN}
    \cup {DefaultArgs(c) : c \in {"search", "children", "spaces"}}
    \cup {[DefaultArgs("create") EXCEPT !.body = b, !.format = f] :
            b \in Bodies, f \in {"markdown", "storage"}}
    \cup {[DefaultArgs("update") EXCEPT !.body = b, !.format = f, !.title = t] :
            b \in Bodies, f \in {"markdown", "storage"}, t \in NewTitles}
    \cup {[DefaultArgs("delete") EXCEPT !.force = f] : f \in BOOLEAN}
    \cup {[DefaultArgs("attachments") EXCEPT !.upload = u] :
            u \in {"none", "exists", "missing"}}
    \cup {[DefaultArgs("export") EXCEPT !.format = f] : f \in {"markdown", "pdf", "docx"}}

\* The transitions a Jira issue can offer, and the names and ids a user types.
Transitions ==
    {[id |-> <<"1", "1">>, name |-> <<"D", "o", "n", "e">>],
     [id |-> <<"2", "1">>, name |-> <<"I", "n", " ", "P", "r", "o", "g", "r", "e", "s", "s">>],
     [id |-> <<"4", "1">>, name |-> <<"D", "O", "N", "E">>]}
TransitionLists ==
    {<<>>} \cup {<<t>> : t \in Transitions} \cup {<<t, u>> : t \in Transitions, u \in Transitions}
Statuses ==
    {<<"d", "o", "n", "e">>,
     <<"2", "1">>,
     <<"I", "n", " ", "R", "e", "v", "i", "e", "w">>}

\* The command lines of jira.py that differ in control flow.
JiraArgs ==
    {DefaultArgs(c) : c \in {"get", "search", "create", "update", "transitions",
                              "comment", "assign", "projects"}}
    \cup {[DefaultArgs("transition") EXCEPT !.status = st] : st \in Statuses}

\* What the server (or the network) does with one HTTP request: a 2xx
\* response; an error status whose body carries a structured message
\* ("message" for Confluence, "errorMessages" / "errors" for Jira); an error
\* status with any other body; a failed connection; no response at all.
HttpErrors == {"http_error_message", "http_error"}
HttpOutcomes == {"ok", "connection_error", "no_response"} \cup HttpErrors

\* A call that carries or returns nothing the model looks at.
NoData == [kind |-> "none"]

\* One HTTP request through the session.  No request is given a timeout
\* argument, and requests has none of its own: timeout is the empty set.
HttpCall(via, method, endpoint, o) ==
    [callee |-> "http", via |-> via, method |-> method, endpoint |-> endpoint,
     outcome |-> o, timeout |-> {}, data |-> NoData]

\* subprocess.run(["pandoc", ...], timeout=30) of markdown_to_storage.
MarkdownToStorageTimeout == 30
SubprocessOutcomes == {"ok", "nonzero", "missing", "timeout"}
SubprocessCall(via, o, ret) ==
    [callee |-> "pandoc", via |-> via, method |-> "", endpoint |-> "",
     outcome |-> o, timeout |-> {MarkdownToStorageTimeout}, data |-> ret]

\* app(): the status the process ends with, by how the command ended.  A
\* normal return is 0 and typer.Exit(n) is n; typer.BadParameter is a click
\* UsageError, which ends the process with its exit_code 2; an aborted prompt
\* and any exception that is no click exception end it with 1.
typer_exit_code(exc) ==
    CASE exc = "return" -> 0
      [] exc = "Exit(0)" -> 0
      [] exc = "Exit(1)" -> 1
      [] exc = "BadParameter" -> 2
      [] exc = "Abort" -> 1
      [] OTHER -> 1

\* What is printed when the command ends with exc outside the command's own code.
typer_prints(exc) ==
    CASE exc \in {"return", "Exit(0)", "Exit(1)"} -> <<>>
      [] exc = "BadParameter" -> <<"Usage error">>
      [] exc = "Abort" -> <<"Aborted!">>
      [] OTHER -> <<"Traceback">>

\* The command ends with exc after printing prints.
Ends(exc, prints) ==
    /\ printed' = printed \o prints \o typer_prints(exc)
    /\ exit_status' = {typer_exit_code(exc)}
    /\ pc' = "exit"

\* The call never returns: the process stays in it.
Blocks ==
    /\ pc' = "blocked"
    /\ UNCHANGED <<printed, exit_status>>

\* _request: the message of an HTTPError.  str(e), replaced by the structured
\* message of the response body when the body has one.
error_msg(o) ==
    IF o = "http_error_message" THEN "message of the body" ELSE "text of the HTTPError"

\* A faulty variant of RequestFails: the command stays where it is and sends
\* the request again.
RequestFails_retries(o) ==
    /\ pc' = pc
    /\ UNCHANGED <<printed, exit_status>>

\* _request: how it leaves on an outcome other than ok.  An HTTPError is
\* caught, its message printed and typer.Exit(1) raised; a connection error is
\* no HTTPError and leaves _request as it is.
RequestFails(o) ==
    CASE o \in HttpErrors -> Ends("Exit(1)", <<"Error: " \o error_msg(o)>>)
      [] o = "no_response" -> Blocks
      [] OTHER -> Ends("ConnectionError", <<>>)

\* _upload and export_pdf call raise_for_status outside any handler.
UnhandledRequestFails(o) ==
    CASE o \in HttpErrors -> Ends("HTTPError", <<>>)
      [] o = "no_response" -> Blocks
      [] OTHER -> Ends("ConnectionError", <<>>)

\* ConfluenceClient.__init__ / JiraClient.__init__ succeed.
ConfigComplete == env.base_url /\ (env.pat \/ (env.username /\ env.password))

\* A faulty variant of make_session: the basic-auth credentials are kept
\* next to the bearer header.
make_session_keeps_basic(e) ==
    IF e.pat
    THEN [authorization |-> "Bearer",
          auth |-> IF e.username /\ e.password THEN "basic" ELSE "none"]
    ELSE [authorization |-> "none", auth |-> "basic"]

\* The session __init__ builds: a bearer Authorization header when the PAT is
\* set, session.auth = (username, password) otherwise.
make_session(e) ==
    IF e.pat
    THEN [authorization |-> "Bearer", auth |-> "none"]
    ELSE [authorization |-> "none", auth |-> "basic"]

\* The commands that are get_client(), one _request and printing its result.
SingleRequests ==
    [confluence |->
        [search |-> [method |-> "GET", endpoint |-> "content/search"],
         children |-> [method |-> "GET", endpoint |-> "content/{id}/child/page"],
         spaces |-> [method |-> "GET", endpoint |-> "space"],
         attachments |-> [method |-> "GET", endpoint |-> "content/{id}/child/attachment"]],
     jira |->
        [get |-> [method |-> "GET", endpoint |-> "issue/{key}"],
         search |-> [method |-> "POST", endpoint |-> "search"],
         create |-> [method |-> "POST", endpoint |-> "issue"],
         update |-> [method |-> "PUT", endpoint |-> "issue/{key}"],
         transitions |-> [method |-> "GET", endpoint |-> "issue/{key}/transitions"],
         comment |-> [method |-> "POST", endpoint |-> "issue/{key}/comment"],
         assign |-> [method |-> "PUT", endpoint |-> "issue/{key}/assignee"],
         projects |-> [method |-> "GET", endpoint |-> "project"]]]

IsSingleRequest ==
    /\ argv.cmd \in DOMAIN SingleRequests[prog]
    /\ (prog = "confluence" /\ argv.cmd = "attachments") => argv.upload = "none"

InitCli ==
    /\ \/ prog = "confluence" /\ argv \in ConfluenceArgs
       \/ prog = "jira" /\ argv \in JiraArgs
    /\ env \in Environments
    /\ pc = "start"
    /\ calls = <<>>
    /\ printed = <<>>
    /\ exit_status = {}
    /\ out_file = NotWritten
    /\ text_content = Unset
    /\ ocr_content = Unset
    /\ md_content = Unset
    /\ session = NoSession
    /\ server = NoServer

CliData == UNCHANGED <<prog, server, argv, env, text_content, ocr_content, md_content>>
CliFrame == CliData /\ UNCHANGED session

\* get_client(): any exception of the constructor is printed and becomes Exit(1).
GetClient ==
    /\ pc = "start"
    /\ IF ConfigComplete
       THEN /\ session' = make_session(env)
            /\ pc' = "client"
            /\ UNCHANGED <<printed, exit_status>>
       ELSE /\ Ends("Exit(1)", <<"Error: configuration">>)
            /\ UNCHANGED session
    /\ UNCHANGED <<calls, out_file>>
    /\ CliData

\* The commands of one request: search, children, spaces, attachments (list)
\* of confluence.py; get, search, create, update, transitions, comment, assign,
\* projects of jira.py.
SingleRequest ==
    /\ pc = "client"
    /\ IsSingleRequest
    /\ \E o \in HttpOutcomes :
        LET r == SingleRequests[prog][argv.cmd] IN
        /\ calls' = Append(calls, HttpCall("_request", r.method, r.endpoint, o))
        /\ IF o = "ok" THEN Ends("return", <<"result">>) ELSE RequestFails(o)
    /\ UNCHANGED out_file
    /\ CliFrame

\* confluence get: neither a page id nor both --space and --title.
ConfluenceGetNoTarget ==
    /\ pc = "client"
    /\ prog = "confluence" /\ argv.cmd = "get"
    /\ ~argv.page_id /\ ~argv.space_title
    /\ Ends("Exit(1)", <<"Error: Provide page_id or both --space and --title">>)
    /\ UNCHANGED <<calls, out_file>>
    /\ CliFrame

\* confluence get <page_id>: ConfluenceClient.get_page by id.
ConfluenceGetById ==
    /\ pc = "client"
    /\ prog = "confluence" /\ argv.cmd = "get"
    /\ argv.page_id
    /\ \E o \in HttpOutcomes :
        /\ calls' = Append(calls, HttpCall("_request", "GET", "content/{id}", o))
        /\ IF o = "ok" THEN Ends("return", <<"page">>) ELSE RequestFails(o)
    /\ UNCHANGED out_file
    /\ CliFrame

\* confluence get --space S --title T: ConfluenceClient.get_page by title; an
\* empty result list raises typer.BadParameter out of the command.
ConfluenceGetByTitle ==
    /\ pc = "client"
    /\ prog = "confluence" /\ argv.cmd = "get"
    /\ ~argv.page_id /\ argv.space_title
    /\ \/ \E o \in HttpOutcomes \ {"ok"} :
            /\ calls' = Append(calls, HttpCall("_request", "GET", "content", o))
            /\ RequestFails(o)
       \/ \E found \in BOOLEAN :
            /\ calls' = Append(calls,
                    HttpCall("_request", "GET", "content",
                             IF found THEN "ok" ELSE "ok_no_results"))
            /\ IF found THEN Ends("return", <<"page">>) ELSE Ends("BadParameter", <<>>)
    /\ UNCHANGED out_file
    /\ CliFrame

\* confluence create / update: body_file.read_text() on a file that cannot be read.
BodyFileUnreadable ==
    /\ pc = "client"
    /\ prog = "confluence" /\ argv.cmd \in {"create", "update"}
    /\ argv.body = "file_missing"
    /\ Ends("FileNotFoundError", <<>>)
    /\ UNCHANGED <<calls, out_file>>
    /\ CliFrame

\* create / update: content = body, or body_file.read_text().
Content ==
    CASE argv.body = "none" -> None
      [] argv.body \in {"empty", "file_empty"} -> Str(<<>>)
      [] OTHER -> Str(<<"a">>)

\* markdown_to_storage: pandoc's output when it exits with 0; otherwise the
\* regular-expression fallback, which leaves text without markdown syntax as
\* it is.
markdown_to_storage(markdown, o, stdout) ==
    IF o = "ok" THEN stdout ELSE markdown

\* A faulty variant of NeedsConversion: the format is not looked at.
NeedsConversion_any_format == Truthy(Content)

\* create / update: the content is converted when it is non-empty markdown.
NeedsConversion == Truthy(Content) /\ argv.format = "markdown"

\* confluence create / update: markdown_to_storage(content).
MarkdownToStorage ==
    /\ pc = "client"
    /\ prog = "confluence" /\ argv.cmd \in {"create", "update"}
    /\ argv.body # "file_missing"
    /\ NeedsConversion
    /\ \E o \in SubprocessOutcomes, stdout \in StrUpTo(MaxStorage) :
        calls' = Append(calls,
            SubprocessCall("markdown_to_storage", o,
                           markdown_to_storage(Content, o, Str(stdout))))
    /\ pc' = "converted"
    /\ UNCHANGED <<printed, exit_status, out_file>>
    /\ CliFrame

\* create / update: the conversion, where one is needed, is done.
ReadyToSend ==
    /\ argv.body # "file_missing"
    /\ IF NeedsConversion THEN pc = "converted" ELSE pc = "client"

\* create / update: the content handed to the client.
StorageBody ==
    IF calls # <<>> /\ calls[1].callee = "pandoc" THEN calls[1].data ELSE Content

\* confluence create without content.
ConfluenceCreateNoBody ==
    /\ pc = "client"
    /\ prog = "confluence" /\ argv.cmd = "create"
    /\ argv.body # "file_missing"
    /\ ~Truthy(Content)
    /\ Ends("Exit(1)", <<"Error: Provide --body or --body-file">>)
    /\ UNCHANGED <<calls, out_file>>
    /\ CliFrame

\* confluence create: ConfluenceClient.create_page.
ConfluenceCreate ==
    /\ prog = "confluence" /\ argv.cmd = "create"
    /\ ReadyToSend
    /\ Truthy(Content)
    /\ \E o \in HttpOutcomes :
        /\ calls' = Append(calls,
                [HttpCall("_request", "POST", "content", o)
                    EXCEPT !.data =
                        [kind |-> "create", body |-> StorageBody,
                         body_format |-> IF argv.format = "markdown"
                                         THEN "storage" ELSE argv.format]])
        /\ IF o = "ok" THEN Ends("return", <<"Created">>) ELSE RequestFails(o)
    /\ UNCHANGED out_file
    /\ CliFrame

\* The pages GET content/{id} can return: with or without a version, with or
\* without a title.
Pages ==
    [kind : {"page"},
     version : {{}} \cup {{n} : n \in 1..MaxVersion},
     title : {None, Str(<<"O">>)}]

\* current.get("version", {}).get("number", 0)
version_number(current) ==
    IF current.version = {} THEN 0 ELSE CHOOSE n \in current.version : TRUE

\* update_page: the json of the PUT.  body is None when the key is absent.
update_payload_keeps_version(current, body, title) ==
    [kind |-> "update",
     number |-> version_number(current),
     title |-> IF Truthy(title) THEN title
               ELSE IF current.title = None THEN Str(<<>>) ELSE current.title,
     body |-> IF Truthy(body) THEN body ELSE None]
update_payload(current, body, title) ==
    [kind |-> "update",
     number |-> version_number(current) + 1,
     title |-> IF Truthy(title) THEN title
               ELSE IF current.title = None THEN Str(<<>>) ELSE current.title,
     body |-> IF Truthy(body) THEN body ELSE None]

\* confluence update: ConfluenceClient.update_page reads the current page.
ConfluenceUpdateGet ==
    /\ prog = "confluence" /\ argv.cmd = "update"
    /\ ReadyToSend
    /\ \/ \E o \in HttpOutcomes \ {"ok"} :
            /\ calls' = Append(calls, HttpCall("_request", "GET", "content/{id}", o))
            /\ RequestFails(o)
       \/ \E page \in Pages :
            /\ calls' = Append(calls,
                    [HttpCall("_request", "GET", "content/{id}", "ok")
                        EXCEPT !.data = page])
            /\ pc' = "update_put"
            /\ UNCHANGED <<printed, exit_status>>
    /\ UNCHANGED out_file
    /\ CliFrame

\* confluence update: ConfluenceClient.update_page puts the next version.
ConfluenceUpdatePut ==
    /\ pc = "update_put"
    /\ \E o \in HttpOutcomes :
        /\ calls' = Append(calls,
                [HttpCall("_request", "PUT", "content/{id}", o)
                    EXCEPT !.data = update_payload(calls[Len(calls)].data,
                                                   StorageBody, argv.title)])
        /\ IF o = "ok" THEN Ends("return", <<"Updated">>) ELSE RequestFails(o)
    /\ UNCHANGED out_file
    /\ CliFrame

\* confluence delete without --force: the page is fetched for the prompt.
ConfluenceDeleteFetch ==
    /\ pc = "client"
    /\ prog = "confluence" /\ argv.cmd = "delete"
    /\ ~argv.force
    /\ \E o \in HttpOutcomes :
        /\ calls' = Append(calls, HttpCall("_request", "GET", "content/{id}", o))
        /\ IF o = "ok"
           THEN pc' = "confirm" /\ UNCHANGED <<printed, exit_status>>
           ELSE RequestFails(o)
    /\ UNCHANGED out_file
    /\ CliFrame

\* typer.confirm(...): the prompt and what it returned (nothing when aborted).
PromptCall(o, yes) ==
    [callee |-> "prompt", via |-> "typer.confirm", method |-> "", endpoint |-> "",
     outcome |-> o, timeout |-> {}, data |-> [kind |-> "answer", yes |-> yes]]

\* A faulty variant of ConfluenceDeleteConfirm: the answer is not looked at.
ConfluenceDeleteConfirm_ignores_answer ==
    /\ pc = "confirm"
    /\ \/ \E yes \in BOOLEAN :
            /\ calls' = Append(calls, PromptCall("ok", yes))
            /\ pc' = "delete"
            /\ UNCHANGED <<printed, exit_status>>
       \/ /\ calls' = Append(calls, PromptCall("abort", FALSE))
          /\ Ends("Abort", <<>>)
    /\ UNCHANGED out_file
    /\ CliFrame

\* confluence delete: typer.confirm; the user accepts, declines, or the prompt
\* is aborted (end of input, interrupt).
ConfluenceDeleteConfirm ==
    /\ pc = "confirm"
    /\ \/ /\ calls' = Append(calls, PromptCall("ok", TRUE))
          /\ pc' = "delete"
          /\ UNCHANGED <<printed, exit_status>>
       \/ /\ calls' = Append(calls, PromptCall("ok", FALSE))
          /\ Ends("Exit(0)", <<"Cancelled">>)
       \/ /\ calls' = Append(calls, PromptCall("abort", FALSE))
          /\ Ends("Abort", <<>>)
    /\ UNCHANGED out_file
    /\ CliFrame

\* confluence delete: ConfluenceClient.delete_page.
ConfluenceDelete ==
    /\ \/ pc = "client" /\ prog = "confluence" /\ argv.cmd = "delete" /\ argv.force
       \/ pc = "delete"
    /\ \E o \in HttpOutcomes :
        /\ calls' = Append(calls, HttpCall("_request", "DELETE", "content/{id}", o))
        /\ IF o = "ok" THEN Ends("return", <<"Deleted">>) ELSE RequestFails(o)
    /\ UNCHANGED out_file
    /\ CliFrame

\* confluence attachments --upload F: F does not exist.
ConfluenceUploadMissing ==
    /\ pc = "client"
    /\ prog = "confluence" /\ argv.cmd = "attachments"
    /\ argv.upload = "missing"
    /\ Ends("Exit(1)", <<"Error: File not found">>)
    /\ UNCHANGED <<calls, out_file>>
    /\ CliFrame

\* confluence attachments --upload F: ConfluenceClient._upload.
ConfluenceUpload ==
    /\ pc = "client"
    /\ prog = "confluence" /\ argv.cmd = "attachments"
    /\ argv.upload = "exists"
    /\ \E o \in HttpOutcomes :
        /\ calls' = Append(calls,
                HttpCall("_upload", "POST", "content/{id}/child/attachment", o))
        /\ IF o = "ok" THEN Ends("return", <<"Uploaded">>) ELSE UnhandledRequestFails(o)
    /\ UNCHANGED out_file
    /\ CliFrame

\* confluence export --format pdf: ConfluenceClient.export_pdf, then the file.
ConfluenceExportPdf ==
    /\ pc = "client"
    /\ prog = "confluence" /\ argv.cmd = "export"
    /\ argv.format = "pdf"
    /\ \E o \in HttpOutcomes :
        /\ calls' = Append(calls,
                HttpCall("session.get", "GET", "spaces/flyingpdf/pdfpageexport.action", o))
        /\ IF o = "ok"
           THEN Ends("return", <<"Exported to">>) /\ out_file' = Str(<<"a">>)
           ELSE UnhandledRequestFails(o) /\ UNCHANGED out_file
    /\ CliFrame

\* confluence export --format markdown: get_page, storage_to_markdown, the file.
ConfluenceExportMarkdown ==
    /\ pc = "client"
    /\ prog = "confluence" /\ argv.cmd = "export"
    /\ argv.format = "markdown"
    /\ \E o \in HttpOutcomes :
        /\ calls' = Append(calls, HttpCall("_request", "GET", "content/{id}", o))
        /\ IF o = "ok"
           THEN Ends("return", <<"Exported to">>) /\ out_file' = Str(<<"a">>)
           ELSE RequestFails(o) /\ UNCHANGED out_file
    /\ CliFrame

\* confluence export with any other format.
ConfluenceExportUnsupported ==
    /\ pc = "client"
    /\ prog = "confluence" /\ argv.cmd = "export"
    /\ argv.format \notin {"pdf", "markdown"}
    /\ Ends("Exit(1)", <<"Error: Unsupported format">>)
    /\ UNCHANGED <<calls, out_file>>
    /\ CliFrame

\* A faulty variant of find_transition: a later match replaces an earlier one
\* (the break is missing).
RECURSIVE find_transition_no_break(_, _)
find_transition_no_break(trans, status) ==
    IF trans = <<>> THEN None
    ELSE LET later == find_transition_no_break(Tail(trans), status)
         IN  IF later # None THEN later
             ELSE IF Head(trans).id = status \/ lower(Head(trans).name) = lower(status)
             THEN Str(Head(trans).id)
             ELSE None

\* The text of a sequence of characters.
RECURSIVE text(_)
text(chars) == IF chars = <<>> THEN "" ELSE Head(chars) \o text(Tail(chars))

\* ", ".join(t["name"] for t in trans)
RECURSIVE available(_)
available(trans) ==
    IF trans = <<>> THEN ""
    ELSE IF Tail(trans) = <<>> THEN text(Head(trans).name)
    ELSE text(Head(trans).name) \o ", " \o available(Tail(trans))

\* transition's loop: the id of the first transition whose id is status or
\* whose name is status in any letter case; None when there is none.
RECURSIVE find_transition(_, _)
find_transition(trans, status) ==
    IF trans = <<>> THEN None
    ELSE IF Head(trans).id = status \/ lower(Head(trans).name) = lower(status)
         THEN Str(Head(trans).id)
         ELSE find_transition(Tail(trans), status)

\* jira transition: get_transitions, then the search for the transition.
JiraTransitionLookup ==
    /\ pc = "client"
    /\ prog = "jira" /\ argv.cmd = "transition"
    /\ \/ \E o \in HttpOutcomes \ {"ok"} :
            /\ calls' = Append(calls,
                    HttpCall("_request", "GET", "issue/{key}/transitions", o))
            /\ RequestFails(o)
       \/ \E trans \in TransitionLists :
            /\ calls' = Append(calls,
                    [HttpCall("_request", "GET", "issue/{key}/transitions", "ok")
                        EXCEPT !.outcome =
                            IF Truthy(find_transition(trans, argv.status))
                            THEN "ok" ELSE "ok_no_match",
                               !.data = [kind |-> "transitions", list |-> trans]])
            /\ IF Truthy(find_transition(trans, argv.status))
               THEN pc' = "transition_post" /\ UNCHANGED <<printed, exit_status>>
               ELSE Ends("Exit(1)",
                         <<"Error: Transition not found. Available: " \o available(trans)>>)
    /\ UNCHANGED out_file
    /\ CliFrame

\* jira transition: JiraClient.transition_issue.
JiraTransitionPost ==
    /\ pc = "transition_post"
    /\ \E o \in HttpOutcomes :
        /\ calls' = Append(calls,
                [HttpCall("_request", "POST", "issue/{key}/transitions", o)
                    EXCEPT !.data =
                        [kind |-> "transition",
                         id |-> find_transition(calls[Len(calls)].data.list,
                                                argv.status).chars]])
        /\ IF o = "ok" THEN Ends("return", <<"Transitioned">>) ELSE RequestFails(o)
    /\ UNCHANGED out_file
    /\ CliFrame

NextCli ==
    \/ GetClient
    \/ SingleRequest
    \/ ConfluenceGetNoTarget
    \/ ConfluenceGetById
    \/ ConfluenceGetByTitle
    \/ BodyFileUnreadable
    \/ MarkdownToStorage
    \/ ConfluenceCreateNoBody
    \/ ConfluenceCreate
    \/ ConfluenceUpdateGet
    \/ ConfluenceUpdatePut
    \/ ConfluenceDeleteFetch
    \/ ConfluenceDeleteConfirm
    \/ ConfluenceDelete
    \/ ConfluenceUploadMissing
    \/ ConfluenceUpload
    \/ ConfluenceExportPdf
    \/ ConfluenceExportMarkdown
    \/ ConfluenceExportUnsupported
    \/ JiraTransitionLookup
    \/ JiraTransitionPost

SpecCli == InitCli /\ [][NextCli]_vars

----------------------------------------------------------------------------
(* confluence.py: two invocations of update on the same page, each a       *)
(* process of its own, and the server that holds the page.                  *)

Invocations == {1, 2}

\* One request of invocation i as the server saw it: at is the page's version
\* on the server when the request was processed.
ServerCall(i, method, o, data, at) ==
    [callee |-> "http", via |-> i, method |-> method, endpoint |-> "content/{id}",
     outcome |-> o, data |-> data, at |-> at]

\* The page GET content/{id} returns when the server holds version n.
ServedPage(n) == [kind |-> "page", version |-> {n}, title |-> Str(<<"O">>)]

\* The server takes a PUT when it carries the version after the current one,
\* and answers 409 Conflict to any other.
Accepts(number) == number = server.version + 1

InitUpdateRace ==
    /\ prog = "confluence"
    /\ argv \in [Invocations -> [cmd : {"update"}, title : NewTitles]]
    /\ env = NoEnv
    /\ session = NoSession
    /\ server \in [version : 1..MaxVersion]
    /\ pc = [i \in Invocations |-> "update_get"]
    /\ calls = <<>>
    /\ printed = [i \in Invocations |-> <<>>]
    /\ exit_status = [i \in Invocations |-> {}]
    /\ out_file = NotWritten
    /\ text_content = Unset
    /\ ocr_content = Unset
    /\ md_content = Unset

\* Invocation i ends with exc after printing prints.
EndsAt(i, exc, prints) ==
    /\ printed' = [printed EXCEPT ![i] = @ \o prints \o typer_prints(exc)]
    /\ exit_status' = [exit_status EXCEPT ![i] = {typer_exit_code(exc)}]
    /\ pc' = [pc EXCEPT ![i] = "exit"]

\* update_page of invocation i: current = self.get_page(page_id)
RaceGet(i) ==
    /\ pc[i] = "update_get"
    /\ \/ /\ calls' = Append(calls,
                    ServerCall(i, "GET", "ok", ServedPage(server.version), server.version))
          /\ pc' = [pc EXCEPT ![i] = "update_put"]
          /\ UNCHANGED <<printed, exit_status>>
       \/ \E o \in HttpErrors :
            /\ calls' = Append(calls,
                    ServerCall(i, "GET", o, ServedPage(server.version), server.version))
            /\ EndsAt(i, "Exit(1)", <<"Error: " \o error_msg(o)>>)
    /\ UNCHANGED <<prog, server, argv, env, session, out_file, text_content, ocr_content,
                   md_content>>

\* The page invocation i read.
current_of(i) ==
    LET g == CHOOSE g \in DOMAIN calls : calls[g].via = i /\ calls[g].method = "GET"
    IN calls[g].data

\* update_page of invocation i: the PUT with version number current + 1, and
\* the server's answer to it.
RacePut(i) ==
    /\ pc[i] = "update_put"
    /\ LET data == update_payload(current_of(i), Str(<<"b">>), argv[i].title) IN
        IF Accepts(data.number)
        THEN /\ calls' = Append(calls, ServerCall(i, "PUT", "ok", data, server.version))
             /\ server' = [version |-> data.number]
             /\ EndsAt(i, "return", <<"Updated">>)
        ELSE /\ calls' = Append(calls,
                    ServerCall(i, "PUT", "http_error_message", data, server.version))
             /\ UNCHANGED server
             /\ EndsAt(i, "Exit(1)", <<"Error: " \o error_msg("http_error_message")>>)
    /\ UNCHANGED <<prog, argv, env, session, out_file, text_content, ocr_content,
                   md_content>>

NextUpdateRace ==
    \/ \E i \in Invocations : RaceGet(i)
    \/ \E i \in Invocations : RacePut(i)

SpecUpdateRace == InitUpdateRace /\ [][NextUpdateRace]_vars

----------------------------------------------------------------------------
(* jira.py: JiraClient._request on an HTTP error response.                  *)

\* str(e) of the HTTPError raise_for_status raised.
HttpErrorText == "400 Client Error"

\* The entries Jira puts into errorMessages, and the fields and messages it
\* puts into errors.
ErrorTexts == {"Issue Does Not Exist", "No permission"}
ErrorFields == {"summary", "project"}
FieldTexts == {"required", "invalid"}

\* Sequences over S of at most n elements.
SeqsUpTo(S, n) == UNION {[1..k -> S] : k \in 0..n}
\* No element occurs twice in q.
Distinct(q) == \A i, j \in DOMAIN q : q[i] = q[j] => i = j

\* The dicts error_data["errors"] can be, as the (key, value) lists .items()
\* walks through.
ErrorDicts ==
    {q \in SeqsUpTo([k : ErrorFields, v : FieldTexts], MaxErrors) :
        Distinct([i \in DOMAIN q |-> q[i].k])}

\* The bodies of the error response: no JSON, or a JSON object with or without
\* the keys errorMessages and errors.
NoJson ==
    [json |-> FALSE, has_errorMessages |-> FALSE, errorMessages |-> <<>>,
     has_errors |-> FALSE, errors |-> <<>>]
ErrorBodies ==
    {NoJson} \cup
    {b \in [json : {TRUE}, has_errorMessages : BOOLEAN,
            errorMessages : SeqsUpTo(ErrorTexts, MaxErrors),
            has_errors : BOOLEAN, errors : ErrorDicts] :
        /\ ~b.has_errorMessages => b.errorMessages = <<>>
        /\ ~b.has_errors => b.errors = <<>>}

\* sep.join(parts)
RECURSIVE join(_, _)
join(sep, parts) ==
    IF parts = <<>> THEN ""
    ELSE IF Len(parts) = 1 THEN parts[1]
    ELSE parts[1] \o sep \o join(sep, Tail(parts))

\* f"{k}: {v}" for k, v in error_data["errors"].items()
field_errors(errors) == [i \in DOMAIN errors |-> errors[i].k \o ": " \o errors[i].v]

\* _request, except HTTPError: error_msg = str(e), replaced by the joined
\* errorMessages when the body has that key, else by the joined errors when it
\* has that one.
jira_error_msg(body) ==
    IF ~body.json THEN HttpErrorText
    ELSE IF body.has_errorMessages THEN join("; ", body.errorMessages)
    ELSE IF body.has_errors THEN join("; ", field_errors(body.errors))
    ELSE HttpErrorText

InitJiraError ==
    /\ prog = "JiraClient._request"
    /\ argv \in ErrorBodies
    /\ env = NoEnv
    /\ pc = "raise_for_status"
    /\ calls = <<>>
    /\ printed = <<>>
    /\ exit_status = {}
    /\ out_file = NotWritten
    /\ text_content = Unset
    /\ ocr_content = Unset
    /\ md_content = Unset
    /\ session = NoSession
    /\ server = NoServer

\* raise_for_status raised HTTPError: the message is printed, typer.Exit(1).
RequestHttpError ==
    /\ prog = "JiraClient._request"
    /\ pc = "raise_for_status"
    /\ Ends("Exit(1)", <<"Error: " \o jira_error_msg(argv)>>)
    /\ UNCHANGED <<prog, server, argv, env, session, calls, out_file, text_content, ocr_content,
                   md_content>>

NextJiraError == RequestHttpError

SpecJiraError == InitJiraError /\ [][NextJiraError]_vars

----------------------------------------------------------------------------
(* google-workspace-convert/scripts/convert.py: extract_file_id on its own. *)

\* A string without "/" is taken for a file ID when it is longer than this.
MinBareIdLen == 20

\* t in s, for str
Contains(s, t) == \E i \in 1..(Len(s) - Len(t) + 1) : SubSeq(s, i, i + Len(t) - 1) = t

\* s[i] as a str of length one.
CharAt(s, i) == SubSeq(s, i, i)

Digits == {"0", "1", "2", "3", "4", "5", "6", "7", "8", "9"}

\* The characters of the class [a-zA-Z0-9_-].
IdChars ==
    {LowerCase[i] : i \in DOMAIN LowerCase} \cup {UpperCase[i] : i \in DOMAIN UpperCase}
        \cup Digits \cup {"_", "-"}

\* The literal each pattern starts with, in the order of the list; each is
\* followed by the group ([a-zA-Z0-9_-]+).
patterns ==
    <<"/document/d/", "/spreadsheets/d/", "/presentation/d/", "/file/d/", "/drawings/d/",
      "id=">>

\* The pattern starting with lit matches s at position i.
MatchesAt(lit, s, i) ==
    /\ i + Len(lit) <= Len(s)
    /\ SubSeq(s, i, i + Len(lit) - 1) = lit
    /\ CharAt(s, i + Len(lit)) \in IdChars

\* The last position of the longest run of ID characters that starts at j.
RunEnd(s, j) ==
    CHOOSE k \in j..Len(s) :
        /\ \A m \in j..k : CharAt(s, m) \in IdChars
        /\ k = Len(s) \/ CharAt(s, k + 1) \notin IdChars

NoMatch == [found |-> FALSE, group |-> ""]

\* re.search(pattern, s): the leftmost match, its group taken greedily.
re_search(lit, s) ==
    IF \E i \in 1..Len(s) : MatchesAt(lit, s, i)
    THEN LET i == CHOOSE i \in 1..Len(s) :
                    /\ MatchesAt(lit, s, i)
                    /\ \A h \in 1..(i - 1) : ~MatchesAt(lit, s, h)
             j == i + Len(lit)
         IN [found |-> TRUE, group |-> SubSeq(s, j, RunEnd(s, j))]
    ELSE NoMatch

NoResult == [kind |-> "unset", chars |-> "", exc |-> ""]
ReturnsStr(s) == [kind |-> "str", chars |-> s, exc |-> ""]
RaisesError(e) == [kind |-> "raise", chars |-> "", exc |-> e]

\* Faulty variant of extract_file_id: the loop does not stop at the first
\* pattern that matches.
extract_file_id_last_pattern(url_or_id) ==
    IF ~Contains(url_or_id, "/") /\ Len(url_or_id) > MinBareIdLen
    THEN ReturnsStr(url_or_id)
    ELSE IF \E p \in DOMAIN patterns : re_search(patterns[p], url_or_id).found
    THEN LET p == CHOOSE p \in DOMAIN patterns :
                    /\ re_search(patterns[p], url_or_id).found
                    /\ \A q \in (p + 1)..Len(patterns) :
                            ~re_search(patterns[q], url_or_id).found
         IN ReturnsStr(re_search(patterns[p], url_or_id).group)
    ELSE RaisesError("ValueError")

\* extract_file_id(url_or_id)
extract_file_id(url_or_id) ==
    IF ~Contains(url_or_id, "/") /\ Len(url_or_id) > MinBareIdLen
    THEN ReturnsStr(url_or_id)
    ELSE IF \E p \in DOMAIN patterns : re_search(patterns[p], url_or_id).found
    THEN LET p == CHOOSE p \in DOMAIN patterns :
                    /\ re_search(patterns[p], url_or_id).found
                    /\ \A q \in 1..(p - 1) : ~re_search(patterns[q], url_or_id).found
         IN ReturnsStr(re_search(patterns[p], url_or_id).group)
    ELSE RaisesError("ValueError")

\* c repeated n times.
RECURSIVE Repeat(_, _)
Repeat(c, n) == IF n = 0 THEN "" ELSE c \o Repeat(c, n - 1)

\* The arguments given to extract_file_id: what comes before the ID, the ID
\* (or what stands in its place), what comes after it.
UrlPrefixes ==
    {"", "id=",
     "https://docs.google.com/document/d/",
     "https://docs.google.com/spreadsheets/d/",
     "https://drive.google.com/file/d/",
     "https://drive.google.com/open?id=",
     "https://example.com/"}
UrlBodies == {Repeat(c, n) : c \in {"a", "_", "."}, n \in 0..MaxIdLen}
UrlSuffixes == {"", "/edit", "/edit?id=b"}
ExtractArgs == {pre \o body \o suf : pre \in UrlPrefixes, body \in UrlBodies, suf \in UrlSuffixes}

InitExtract ==
    /\ prog = "extract_file_id"
    /\ argv \in [url_or_id : ExtractArgs]
    /\ env = NoEnv
    /\ pc = "call"
    /\ calls = <<>>
    /\ printed = <<>>
    /\ exit_status = {}
    /\ out_file = NotWritten
    /\ text_content = Unset
    /\ ocr_content = Unset
    /\ md_content = NoResult
    /\ session = NoSession
    /\ server = NoServer

CallExtractFileId ==
    /\ prog = "extract_file_id"
    /\ pc = "call"
    /\ md_content' = extract_file_id(argv.url_or_id)
    /\ pc' = "returned"
    /\ UNCHANGED <<prog, server, argv, env, session, calls, printed, exit_status, out_file,
                   text_content, ocr_content>>

NextExtract == CallExtractFileId

SpecExtract == InitExtract /\ [][NextExtract]_vars

----------------------------------------------------------------------------
(* Claims about merge_extractions, checked under SpecMerge.                *)

Returned == prog = "merge_extractions" /\ pc = "returned"
BothPresent == Truthy(text_content) /\ Truthy(ocr_content)
RawTextLen == Len(text_content.chars)
RawOcrLen == Len(ocr_content.chars)
StrippedTextLen == Len(strip(text_content.chars))
StrippedOcrLen == Len(strip(ocr_content.chars))
Combined == Str(ocr_content.chars \o Separator \o text_content.chars)

\* C1 as stated: whenever both extractions are present and the OCR length is
\* at most 1.2 times the text length (10 * ocr <= 12 * text), the result is
\* exactly the text extraction.
C1_AsStated ==
    (Returned /\ BothPresent /\ 10 * RawOcrLen <= 12 * RawTextLen)
        => md_content = text_content

\* C1 amended: whenever both extractions are present and the OCR length is at
\* most 1.2 times the text length, both lengths measured after stripping
\* leading and trailing whitespace, the result is exactly the text extraction.
C1_TextPreferred ==
    (Returned /\ BothPresent /\ 10 * StrippedOcrLen <= 12 * StrippedTextLen)
        => md_content = text_content

\* The boundary case of C1: a stripped OCR length of exactly 1.2 times the
\* stripped text length, the inputs differing, the text extraction returned.
C1_Witness ==
    /\ Returned /\ BothPresent
    /\ StrippedTextLen > 0
    /\ 10 * StrippedOcrLen = 12 * StrippedTextLen
    /\ text_content # ocr_content
    /\ md_content = text_content

\* C2 as stated: whenever the OCR string is more than 1.2 times as long as the
\* text string, the result is the OCR content, the separator and the text
\* content, both inputs verbatim.
C2_AsStated ==
    (Returned /\ BothPresent /\ 10 * RawOcrLen > 12 * RawTextLen)
        => md_content = Combined

\* C2 amended: whenever both strings are non-empty and the OCR string is more
\* than 1.2 times as long as the text string, both lengths measured after
\* stripping leading and trailing whitespace, the result starts with the OCR
\* content verbatim, ends with the text content verbatim, and has exactly the
\* separator between them.
C2_OcrThenText ==
    (Returned /\ BothPresent /\ 10 * StrippedOcrLen > 12 * StrippedTextLen)
        => /\ md_content.kind = "str"
           /\ Len(md_content.chars) = RawOcrLen + Len(Separator) + RawTextLen
           /\ SubSeq(md_content.chars, 1, RawOcrLen) = ocr_content.chars
           /\ SubSeq(md_content.chars, RawOcrLen + 1, RawOcrLen + Len(Separator))
                = Separator
           /\ SubSeq(md_content.chars, RawOcrLen + Len(Separator) + 1,
                     Len(md_content.chars)) = text_content.chars

\* A case of C2: the OCR extraction is the longer one after stripping, the raw
\* text is not shorter than the raw OCR (whitespace padding), and the two were
\* combined.
C2_Witness ==
    /\ Returned /\ BothPresent
    /\ 10 * StrippedOcrLen > 12 * StrippedTextLen
    /\ RawTextLen >= RawOcrLen
    /\ md_content = Combined

\* C3 as stated: for every pair of text and OCR strings of equal length the
\* result is the text extraction unchanged.
C3_AsStated ==
    (Returned /\ text_content.kind = "str" /\ ocr_content.kind = "str"
        /\ RawTextLen = RawOcrLen)
        => md_content = text_content

\* C3 amended: for every pair of non-empty text and OCR strings whose lengths
\* are equal after stripping leading and trailing whitespace, the result is
\* the text extraction unchanged.
C3_EqualLength ==
    (Returned /\ BothPresent /\ StrippedTextLen = StrippedOcrLen)
        => md_content = text_content

\* A case of C3: equal stripped lengths, different raw lengths, different
\* strings, the text extraction returned.
C3_Witness ==
    /\ Returned /\ BothPresent
    /\ StrippedTextLen = StrippedOcrLen
    /\ RawOcrLen > RawTextLen
    /\ md_content = text_content

\* C4: when exactly one of the two inputs is present and non-empty (the other
\* is None or empty), the result is that input unchanged, whichever it is.
C4_OnePresent ==
    Returned =>
        /\ (Truthy(text_content) /\ ~Truthy(ocr_content)) => md_content = text_content
        /\ (Truthy(ocr_content) /\ ~Truthy(text_content)) => md_content = ocr_content

\* A case of C4: only the OCR extraction is present (the text extraction is the
\* empty string), it carries whitespace, and it is returned as it is.
C4_Witness ==
    /\ Returned
    /\ text_content = Str(<<>>)
    /\ Truthy(ocr_content)
    /\ strip(ocr_content.chars) # ocr_content.chars
    /\ md_content = ocr_content

\* C5: merge_extractions is total: for every combination of None, empty and
\* non-empty inputs it returns a str and never raises, and when both inputs are
\* absent (None or empty) the result is the empty string.
C5_Total ==
    Returned =>
        /\ md_content.kind = "str"
        /\ (~Truthy(text_content) /\ ~Truthy(ocr_content)) => md_content = Str(<<>>)

\* A case of C5: both inputs are None and the empty string was returned.
C5_Witness ==
    /\ Returned
    /\ text_content = None
    /\ ocr_content = None
    /\ md_content = Str(<<>>)

----------------------------------------------------------------------------
(* Claims about convert_file_content and main, checked under SpecConvert.  *)

IsConverter(c) == c.callee \in {"pandoc", "markitdown"}
\* The converter invocations of this process, in order.
ConverterCalls == SelectSeq(calls, IsConverter)
\* The seven extensions the specification routes to pandoc.
RoutedToPandoc ==
    {<<".", "e", "p", "u", "b">>,
     <<".", "o", "r", "g">>,
     <<".", "r", "s", "t">>,
     <<".", "t", "e", "x">>,
     <<".", "l", "a", "t", "e", "x">>,
     <<".", "o", "d", "t">>,
     <<".", "r", "t", "f">>}
SameIgnoringCase(a, b) == lower(a) = lower(b)
OnHybridPath == SameIgnoringCase(PathSuffix, Pdf) /\ argv.hybrid
RuntimeErrorReported == \E i \in DOMAIN printed : printed[i] = "Error: Failed to convert"
ErrorReported ==
    \E i \in DOMAIN printed : Len(printed[i]) >= 6 /\ SubSeq(printed[i], 1, 6) = "Error:"
SuccessReported == \E i \in DOMAIN printed : printed[i] = "Converted to"

\* C6: the first converter invoked is pandoc exactly when the file's extension,
\* compared case-insensitively, is one of .epub .org .rst .tex .latex .odt
\* .rtf; for every other extension the first converter invoked is markitdown.
C6_Routing ==
    ConverterCalls # <<>> =>
        IF \E e \in RoutedToPandoc : SameIgnoringCase(PathSuffix, e)
        THEN ConverterCalls[1].callee = "pandoc"
        ELSE ConverterCalls[1].callee = "markitdown"

\* A case of C6: an extension typed in upper case went to pandoc first.
C6_Witness ==
    /\ ConverterCalls # <<>>
    /\ PathSuffix # lower(PathSuffix)
    /\ ConverterCalls[1].callee = "pandoc"

\* The try-primary-then-fallback policy on the converter invocations so far.
PrimaryThenFallback ==
    /\ Len(ConverterCalls) <= 2
    \* the secondary runs only after the primary returned no content
    /\ Len(ConverterCalls) = 2 => ~Truthy(ConverterCalls[1].ret)
    \* each converter runs at most once
    /\ \A i, j \in DOMAIN ConverterCalls :
            i # j => ConverterCalls[i].callee # ConverterCalls[j].callee
    \* the primary's non-empty content is what is returned
    /\ (ConverterCalls # <<>> /\ Truthy(ConverterCalls[1].ret))
            => pc \in {"write", "exit"} /\ md_content = ConverterCalls[1].ret
    \* RuntimeError only when both returned no content
    /\ RuntimeErrorReported
            => /\ Len(ConverterCalls) = 2
               /\ \A i \in DOMAIN ConverterCalls : ~Truthy(ConverterCalls[i].ret)

\* C7 as stated: in convert_file_content the secondary converter is invoked
\* only after the primary returned no content, each converter is invoked at
\* most once, the primary's content is returned whenever it is non-empty, and
\* RuntimeError is raised only when both returned no content.
C7_AsStated == PrimaryThenFallback

\* C7 amended: on every path of convert_file_content other than the hybrid PDF
\* extraction (suffix .pdf with --hybrid) the secondary converter is invoked
\* only after the primary returned no content, each converter is invoked at
\* most once, the primary's content is returned whenever it is non-empty, and
\* RuntimeError is raised only when both returned no content; on the hybrid
\* PDF path markitdown is invoked twice (without OCR, then with OCR), pandoc
\* never, and RuntimeError is never raised.
C7_PrimaryThenFallback ==
    IF OnHybridPath
    THEN /\ \A i \in DOMAIN ConverterCalls :
                /\ ConverterCalls[i].callee = "markitdown"
                /\ ConverterCalls[i].enable_ocr = (i = 2)
         /\ Len(ConverterCalls) <= 2
         /\ (pc \in {"write", "exit"} /\ ConverterCalls # <<>>)
                => Len(ConverterCalls) = 2 /\ md_content.kind = "str"
         /\ ~RuntimeErrorReported
    ELSE PrimaryThenFallback

\* A case of C7: the primary (pandoc) returned nothing, the fallback
\* (markitdown) returned content, and that content was written.
C7_Witness ==
    /\ ~OnHybridPath
    /\ argv.hybrid
    /\ pc = "exit"
    /\ Len(ConverterCalls) = 2
    /\ ConverterCalls[1].callee = "pandoc"
    /\ ~Truthy(ConverterCalls[1].ret)
    /\ Truthy(ConverterCalls[2].ret)
    /\ out_file = ConverterCalls[2].ret

\* C8: whenever none of the converters attempted for the input produced
\* content, the invocation ends with an error message and exit status 1, and
\* neither reports success nor writes an output file.
C8_FailureIsTerminal ==
    (/\ pc = "exit"
     /\ ConverterCalls # <<>>
     /\ \A i \in DOMAIN ConverterCalls : ~Truthy(ConverterCalls[i].ret))
        => /\ exit_status = {1}
           /\ ErrorReported
           /\ ~SuccessReported
           /\ out_file = NotWritten

\* C9: a pandoc failure (binary missing, timeout, non-zero exit) leaves
\* run_pandoc as None, never as an exception; the caller is then about to run,
\* or has run next, the other converter, or has raised the RuntimeError that
\* main reported as an error message with exit status 1.
C9_PandocFailureCaught ==
    \A i \in DOMAIN calls :
        (calls[i].callee = "pandoc"
            /\ calls[i].outcome \in {"missing", "timeout", "nonzero"})
        => /\ calls[i].ret = None
           /\ IF i < Len(calls)
              THEN calls[i + 1].callee = "markitdown"
              ELSE \/ pc = "pandoc_failed"
                   \/ /\ pc = "exit"
                      /\ exit_status = {1}
                      /\ printed[Len(printed)] = "Error: Failed to convert"
                      /\ i > 1
                      /\ calls[i - 1].callee = "markitdown"

\* A case of C9: pandoc, the primary converter, timed out and markitdown ran
\* after it.
C9_Witness ==
    /\ Len(calls) = 2
    /\ calls[1].callee = "pandoc"
    /\ calls[1].outcome = "timeout"
    /\ calls[1].ret = None
    /\ calls[2].callee = "markitdown"

----------------------------------------------------------------------------
(* Claims about confluence.py and jira.py, checked under SpecCli.          *)

\* The request that carries out the command, where the command makes several.
FinalMethod ==
    CASE prog = "confluence" /\ argv.cmd = "update" -> "PUT"
      [] prog = "confluence" /\ argv.cmd = "delete" -> "DELETE"
      [] prog = "jira" /\ argv.cmd = "transition" -> "POST"
      [] OTHER -> IF calls = <<>> THEN "" ELSE calls[Len(calls)].method

\* The requested operation succeeded: every request was answered with what
\* the command needed, and the request that carries it out was among them.
OperationSucceeded ==
    /\ calls # <<>>
    /\ \A i \in DOMAIN calls : calls[i].outcome = "ok"
    /\ calls[Len(calls)].method = FinalMethod

\* The user declined the confirmation prompt of delete.
UserDeclined == \E i \in DOMAIN printed : printed[i] = "Cancelled"

\* C10: every failure of a Confluence or Jira subcommand (missing
\* configuration, invalid arguments, page not found by space and title,
\* unknown transition, unsupported export format, HTTP error) ends the process
\* with exit status 1, and the process ends with exit status 0 only when the
\* requested operation succeeded (or the user withdrew it at the prompt).
C10_ExitStatus ==
    (prog \in {"confluence", "jira"} /\ pc = "exit")
        => IF OperationSucceeded \/ UserDeclined
           THEN exit_status = {0}
           ELSE exit_status = {1}

\* The HTTP requests among the calls, in order.
IsHttp(c) == c.callee = "http"
HttpCalls == SelectSeq(calls, IsHttp)
\* An HTTP request that did not get a 2xx response.
Failed(c) == c.callee = "http" /\ c.outcome \in (HttpOutcomes \ {"ok"})

\* C11: every HTTP request of ConfluenceClient and JiraClient that is answered
\* with an error status ends the process with exit status 1 after printing
\* "Error: " and the message derived from the response (the structured
\* message of the body when it has one, the text of the HTTPError otherwise).
C11_UniformErrorHandling ==
    \A i \in DOMAIN calls :
        (calls[i].callee = "http" /\ calls[i].outcome \in HttpErrors)
        => /\ pc = "exit"
           /\ exit_status = {1}
           /\ printed # <<>>
           /\ printed[Len(printed)] =
                "Error: " \o (IF calls[i].outcome = "http_error_message"
                              THEN "message of the body"
                              ELSE "text of the HTTPError")

\* C13: once get_client has run, a PAT in the environment gives a session
\* with a bearer Authorization header and no basic-auth credentials; without a
\* PAT the session has basic-auth credentials and both username and password
\* are set; and when the base URL is unset, or neither a PAT nor a complete
\* username/password pair is set, the process has exited with status 1
\* without a session and without any HTTP request.  No request is made
\* before the session exists.
C13_SessionConstruction ==
    /\ (session = NoSession) => calls = <<>>
    /\ (prog \in {"confluence", "jira"} /\ pc # "start")
        => IF env.base_url /\ (env.pat \/ (env.username /\ env.password))
           THEN IF env.pat
                THEN session.authorization = "Bearer" /\ session.auth = "none"
                ELSE /\ session.authorization = "none" /\ session.auth = "basic"
                     /\ env.username /\ env.password
           ELSE /\ pc = "exit"
                /\ exit_status = {1}
                /\ session = NoSession
                /\ calls = <<>>

\* A case of C13: PAT, username and password are all set, the session is
\* built and a request was made with it.
C13_Witness ==
    /\ env.base_url /\ env.pat /\ env.username /\ env.password
    /\ session.authorization = "Bearer"
    /\ session.auth = "none"
    /\ HttpCalls # <<>>

\* C14: a request that failed (error status, failed connection) is the last
\* call of the process: it is not sent again and no other request follows it,
\* and the process is not at a position from which it sends one.  So update
\* never PUTs after a failed GET and transition never POSTs after a failed
\* lookup.
C14_NoRetry ==
    \A i \in DOMAIN calls :
        Failed(calls[i])
        => /\ i = Len(calls)
           /\ pc \in {"exit", "blocked"}

\* A case of C14: the GET of update failed with an error status and the
\* process ended without a PUT.
C14_Witness ==
    /\ prog = "confluence" /\ argv.cmd = "update"
    /\ pc = "exit"
    /\ Len(HttpCalls) = 1
    /\ HttpCalls[1].method = "GET"
    /\ HttpCalls[1].outcome = "http_error"

\* C15: every subprocess call and every HTTP call has a timeout configured on
\* it, so no process stays for ever in a call whose other party never
\* responds.
C15_EveryCallTimesOut ==
    /\ \A i \in DOMAIN calls :
        calls[i].callee \in {"http", "pandoc"} => calls[i].timeout # {}
    /\ pc # "blocked"

\* C20: in confluence update no PUT is sent but as the second request after
\* the one GET, answered with the page; the PUT carries the version number of
\* that page plus one (one when the page has none), the new title when one is
\* given and the page's title otherwise, and a body only when a non-empty
\* body was supplied; an update that completed made exactly the GET and the
\* PUT.
C20_UpdateVersion ==
    (prog = "confluence" /\ argv.cmd = "update")
    => /\ Len(HttpCalls) <= 2
       /\ (pc = "exit" /\ exit_status = {0}) => Len(HttpCalls) = 2
       /\ \A i \in DOMAIN HttpCalls :
            IF HttpCalls[i].method = "GET" THEN i = 1
            ELSE /\ HttpCalls[i].method = "PUT"
                 /\ i = 2
                 /\ HttpCalls[1].method = "GET"
                 /\ HttpCalls[1].outcome = "ok"
                 /\ LET current == HttpCalls[1].data
                        put == HttpCalls[2].data
                    IN /\ \/ current.version = {} /\ put.number = 1
                          \/ current.version = {put.number - 1}
                       /\ put.title =
                            (IF argv.title \notin {None, Str(<<>>)} THEN argv.title
                             ELSE IF current.title = None THEN Str(<<>>)
                             ELSE current.title)
                       /\ put.body # None => argv.body \in {"text", "file"}

\* A case of C20: update without --title and without a body of a page at
\* version 2 completed; the PUT carried version 3, the page's title, no body.
C20_Witness ==
    /\ prog = "confluence" /\ argv.cmd = "update"
    /\ argv.title = None /\ argv.body = "none"
    /\ pc = "exit" /\ exit_status = {0}
    /\ Len(HttpCalls) = 2
    /\ HttpCalls[1].data.version = {2}
    /\ HttpCalls[2].data.number = 3
    /\ HttpCalls[2].data.title = Str(<<"O">>)
    /\ HttpCalls[2].data.body = None

----------------------------------------------------------------------------
(* Further claims about convert.py, checked under SpecConvert.             *)

\* C16 as stated: with --mode text markitdown is never invoked with OCR
\* enabled, whatever the extension of the input and whether or not --hybrid
\* is given.
C16_AsStated ==
    (prog = "convert-to-markdown" /\ argv.mode = "text")
        => \A i \in DOMAIN calls :
            calls[i].callee = "markitdown" => ~calls[i].enable_ocr

\* C16: with --mode text markitdown is invoked with OCR enabled only as the
\* second extraction of the hybrid PDF path (extension .pdf in any letter
\* case, with --hybrid); for every other extension, and for every extension
\* without --hybrid, every invocation has OCR disabled.
C16_TextModeNoOcrOutsideHybrid ==
    (prog = "convert-to-markdown" /\ argv.mode = "text")
        => \A i \in DOMAIN calls :
            (calls[i].callee = "markitdown" /\ calls[i].enable_ocr)
                => /\ OnHybridPath
                   /\ i = 2
                   /\ calls[1].callee = "markitdown"
                   /\ ~calls[1].enable_ocr

\* A case of C16: an image converted with --mode text; markitdown ran, with
\* OCR disabled.
C16_Witness ==
    /\ prog = "convert-to-markdown" /\ argv.mode = "text"
    /\ lower(PathSuffix) \in ImageSuffixes
    /\ \E i \in DOMAIN calls :
        calls[i].callee = "markitdown" /\ ~calls[i].enable_ocr

----------------------------------------------------------------------------
(* google-workspace-convert/scripts/convert.py: one invocation.            *)

\* WORKSPACE_TYPES: the extension each Workspace MIME type is exported with.
WORKSPACE_TYPES ==
    [x \in {"application/vnd.google-apps.document",
            "application/vnd.google-apps.spreadsheet",
            "application/vnd.google-apps.presentation",
            "application/vnd.google-apps.drawing"} |->
        CASE x = "application/vnd.google-apps.document" -> Docx
          [] x = "application/vnd.google-apps.spreadsheet" -> <<".", "x", "l", "s", "x">>
          [] x = "application/vnd.google-apps.presentation" -> <<".", "p", "p", "t", "x">>
          [] OTHER -> <<".", "p", "n", "g">>]

\* ext_map of convert_workspace_file, for the MIME types of the model.
ext_map ==
    [x \in {"application/pdf", "text/plain"} |->
        IF x = "application/pdf" THEN Pdf ELSE <<".", "t", "x", "t">>]

\* The MIME types files.get reports in the model: the four of
\* WORKSPACE_TYPES, two of ext_map, and three in neither table.
MimeTypes ==
    DOMAIN WORKSPACE_TYPES \cup DOMAIN ext_map
        \cup {"application/epub+zip", "application/vnd.google-apps.form",
              "application/octet-stream"}

\* Path(file_name).suffix of the names files.get reports in the model.
NameSuffixes == {<<>>, <<".", "e", "p", "u", "b">>, <<".", "P", "D", "F">>, Docx}

FileInfos == [mime : MimeTypes, suffix : NameSuffixes]
NoFile == [mime |-> "", suffix |-> <<>>]

\* The suffix of export_path, the file handed to convert_to_markdown.
export_suffix(info) ==
    IF info.mime \in DOMAIN WORKSPACE_TYPES THEN WORKSPACE_TYPES[info.mime]
    ELSE IF info.mime \in DOMAIN ext_map THEN ext_map[info.mime]
    ELSE IF info.suffix # <<>> THEN info.suffix
    ELSE <<".", "b", "i", "n">>

\* Faulty variant of fetch_op: every file is downloaded directly.
fetch_op_always_download(mime) == "get_media"

\* convert_workspace_file: export_workspace_file for the types of
\* WORKSPACE_TYPES, download_regular_file for every other type.
fetch_op(mime) ==
    IF mime \in DOMAIN WORKSPACE_TYPES THEN "export_media" ELSE "get_media"

\* Faulty variant of convert_to_markdown: the text is stripped.
convert_to_markdown_strips(o) ==
    IF o.kind = "ok" THEN Str(strip(o.stdout)) ELSE Raise("Exception")

\* convert_to_markdown of this script: MarkItDown(...).convert(...).text_content;
\* an exception of the library leaves the function.
convert_to_markdown(o) ==
    IF o.kind = "ok" THEN Str(o.stdout) ELSE Raise("Exception")

\* GOOGLE_APPLICATION_CREDENTIALS: unset, the path of a file that cannot be
\* loaded, the path of a service-account file.
GwsEnvironments == [credentials : {"unset", "unreadable", "valid"}]

\* The command lines that differ in control flow.  input of to-markdown is a
\* file id, a Drive URL, or text extract_file_id finds no id in; input of
\* to-gdoc is an existing or a missing markdown file.
GwsArgs ==
    [cmd : {"to-markdown"}, input : {"id", "url", "bad"}, ocr : BOOLEAN]
        \cup [cmd : {"to-gdoc"}, input : {"exists", "missing"}, ocr : {FALSE}]
        \cup [cmd : {"list", "info", "none"}, input : {""}, ocr : {FALSE}]

\* What a Drive API request can do.
DriveOutcomes == {"ok", "not_found", "error"}

\* One external call of this script; stdout is the text markitdown produced,
\* ret what the function of the script that made the call returned.
GwsCall(callee, op, o) ==
    [callee |-> callee, op |-> op, outcome |-> o, enable_ocr |-> FALSE,
     stdout |-> <<>>, ret |-> None, info |-> NoFile, chunks |-> 0]

InitGws ==
    /\ prog = "google-workspace-convert"
    /\ argv \in GwsArgs
    /\ env \in GwsEnvironments
    /\ pc = "gws_main"
    /\ calls = <<>>
    /\ printed = <<>>
    /\ exit_status = {}
    /\ out_file = NotWritten
    /\ text_content = Unset
    /\ ocr_content = Unset
    /\ md_content = Unset
    /\ session = NoSession
    /\ server = NoServer

GwsFrame == UNCHANGED <<prog, server, argv, env, session, text_content, ocr_content>>

\* main returns 0 after printing line.
Returns0(line) ==
    /\ printed' = Append(printed, line)
    /\ exit_status' = {0}
    /\ pc' = "exit"

\* An exception leaves main: the interpreter prints the traceback and the
\* process ends with status 1.
Uncaught ==
    /\ printed' = Append(printed, "Traceback")
    /\ exit_status' = {1}
    /\ pc' = "exit"

\* main without a subcommand: parser.print_help(); return 1.
GwsNoCommand ==
    /\ pc = "gws_main"
    /\ argv.cmd = "none"
    /\ printed' = Append(printed, "usage")
    /\ exit_status' = {1}
    /\ pc' = "exit"
    /\ UNCHANGED <<calls, out_file, md_content>>
    /\ GwsFrame

\* main, info: get_service_account_email() and the sharing instructions; the
\* branch has no try, so a credentials file that cannot be opened or parsed
\* raises out of main.
GwsInfo ==
    /\ pc = "gws_main"
    /\ argv.cmd = "info"
    /\ IF env.credentials = "unreadable"
       THEN Uncaught
       ELSE Returns0("Service Account Email")
    /\ UNCHANGED <<calls, out_file, md_content>>
    /\ GwsFrame

\* to-markdown: extract_file_id(url_or_id).
GwsExtractFileId ==
    /\ pc = "gws_main"
    /\ argv.cmd = "to-markdown"
    /\ IF argv.input = "bad"
       THEN MainExcept(<<>>, "Could not extract file ID")
       ELSE /\ pc' = "gws_service"
            /\ printed' = Append(printed, "File ID")
            /\ UNCHANGED exit_status
    /\ UNCHANGED <<calls, out_file, md_content>>
    /\ GwsFrame

\* to-gdoc: create_gdoc_from_markdown checks that the markdown file exists.
GwsMarkdownFile ==
    /\ pc = "gws_main"
    /\ argv.cmd = "to-gdoc"
    /\ IF argv.input = "missing"
       THEN MainExcept(<<>>, "Markdown file not found")
       ELSE /\ pc' = "gws_service"
            /\ printed' = Append(printed, "Converting to Google Doc")
            /\ UNCHANGED exit_status
    /\ UNCHANGED <<calls, out_file, md_content>>
    /\ GwsFrame

\* get_drive_service(): the credentials are loaded and the client is built.
GwsGetDriveService ==
    /\ \/ pc = "gws_service"
       \/ pc = "gws_main" /\ argv.cmd = "list"
    /\ CASE env.credentials = "unset" ->
                MainExcept(<<>>, "GOOGLE_APPLICATION_CREDENTIALS env var required")
         [] env.credentials = "unreadable" ->
                MainExcept(<<>>, "credentials file")
         [] OTHER ->
                /\ pc' = CASE argv.cmd = "to-markdown" -> "gws_file_info"
                           [] argv.cmd = "to-gdoc" -> "gws_pandoc"
                           [] OTHER -> "gws_list"
                /\ UNCHANGED <<printed, exit_status>>
    /\ UNCHANGED <<calls, out_file, md_content>>
    /\ GwsFrame

\* get_file_info: files().get(...).execute(); a 404 becomes a ValueError, any
\* other exception is raised again.
GwsGetFileInfo ==
    /\ pc = "gws_file_info"
    /\ \/ \E info \in FileInfos :
            /\ calls' = Append(calls,
                    [GwsCall("drive", "files.get", "ok") EXCEPT !.info = info])
            /\ pc' = "gws_fetch"
            /\ printed' = printed \o <<"File", "Type">>
            /\ UNCHANGED exit_status
       \/ \E o \in DriveOutcomes \ {"ok"} :
            /\ calls' = Append(calls, GwsCall("drive", "files.get", o))
            /\ MainExcept(<<>>, IF o = "not_found" THEN "File not found" ELSE "HttpError")
    /\ UNCHANGED <<out_file, md_content>>
    /\ GwsFrame

\* The metadata files.get returned.
file_info == calls[1].info

\* export_workspace_file / download_regular_file: open(output_path, "wb")
\* fails (the name is no file name in the temporary directory); no request is
\* sent.
GwsFetchCannotOpen ==
    /\ pc = "gws_fetch"
    /\ MainExcept(<<>>, "No such file or directory")
    /\ UNCHANGED <<calls, out_file, md_content>>
    /\ GwsFrame

\* export_workspace_file / download_regular_file: the one media request,
\* read chunk by chunk until done or until a chunk fails.
GwsFetch ==
    /\ pc = "gws_fetch"
    /\ \E n \in 1..MaxChunks, o \in {"ok", "error"} :
        /\ calls' = Append(calls,
                [GwsCall("drive", fetch_op(file_info.mime), o)
                    EXCEPT !.chunks = n, !.info = file_info])
        /\ IF o = "ok"
           THEN /\ pc' = "gws_convert"
                /\ printed' = Append(printed, "Converting to Markdown...")
                /\ UNCHANGED exit_status
           ELSE MainExcept(<<>>, "HttpError")
    /\ UNCHANGED <<out_file, md_content>>
    /\ GwsFrame

\* convert_to_markdown(export_path, enable_ocr=args.ocr)
GwsConvert ==
    /\ pc = "gws_convert"
    /\ \E o \in MarkitdownOutcomes :
        LET content == convert_to_markdown(o) IN
        /\ calls' = Append(calls,
                [GwsCall("markitdown", "convert", o.kind)
                    EXCEPT !.enable_ocr = argv.ocr, !.stdout = o.stdout,
                           !.ret = content, !.info = file_info])
        /\ IF content.kind = "raise"
           THEN MainExcept(<<>>, "markitdown") /\ UNCHANGED md_content
           ELSE /\ md_content' = content
                /\ pc' = "gws_write"
                /\ UNCHANGED <<printed, exit_status>>
    /\ UNCHANGED out_file
    /\ GwsFrame

\* out.parent.mkdir(...); out.write_text(md_content); print; return 0
GwsWrite ==
    /\ pc = "gws_write"
    /\ \/ out_file' = md_content /\ Returns0("Converted to:")
       \/ MainExcept(<<>>, "OSError") /\ UNCHANGED out_file
    /\ UNCHANGED <<calls, md_content>>
    /\ GwsFrame

\* Faulty variant of GwsMarkdownToDocx: pandoc's exit status is not looked at.
GwsMarkdownToDocx_ignores_exit ==
    /\ pc = "gws_pandoc"
    /\ \E o \in SubprocessOutcomes :
        /\ calls' = Append(calls, GwsCall("pandoc", "markdown_to_docx", o))
        /\ IF o \in {"ok", "nonzero"}
           THEN /\ pc' = "gws_upload"
                /\ printed' = Append(printed, "Uploading to Google Drive...")
                /\ UNCHANGED exit_status
           ELSE MainExcept(<<>>, CASE o = "missing" -> "FileNotFoundError"
                                  [] OTHER -> "TimeoutExpired")
    /\ UNCHANGED <<out_file, md_content>>
    /\ GwsFrame

\* markdown_to_docx: pandoc with timeout=60; a non-zero exit is a
\* RuntimeError, a missing binary and a timeout raise as they are.
GwsMarkdownToDocx ==
    /\ pc = "gws_pandoc"
    /\ \E o \in SubprocessOutcomes :
        /\ calls' = Append(calls, GwsCall("pandoc", "markdown_to_docx", o))
        /\ IF o = "ok"
           THEN /\ pc' = "gws_upload"
                /\ printed' = Append(printed, "Uploading to Google Drive...")
                /\ UNCHANGED exit_status
           ELSE MainExcept(<<>>, CASE o = "nonzero" -> "Pandoc failed"
                                  [] o = "missing" -> "FileNotFoundError"
                                  [] OTHER -> "TimeoutExpired")
    /\ UNCHANGED <<out_file, md_content>>
    /\ GwsFrame

\* upload_to_gdoc: files().create(...).execute()
GwsUpload ==
    /\ pc = "gws_upload"
    /\ \E o \in {"ok", "error"} :
        /\ calls' = Append(calls, GwsCall("drive", "files.create", o))
        /\ IF o = "ok" THEN Returns0("Created Google Doc:") ELSE MainExcept(<<>>, "HttpError")
    /\ UNCHANGED <<out_file, md_content>>
    /\ GwsFrame

\* list_shared_files: files().list(...).execute()
GwsList ==
    /\ pc = "gws_list"
    /\ \E o \in {"ok", "ok_no_files", "error"} :
        /\ calls' = Append(calls, GwsCall("drive", "files.list", o))
        /\ CASE o = "ok" -> Returns0("Accessible files")
             [] o = "ok_no_files" -> Returns0("No files found.")
             [] OTHER -> MainExcept(<<>>, "HttpError")
    /\ UNCHANGED <<out_file, md_content>>
    /\ GwsFrame

NextGws ==
    \/ GwsNoCommand
    \/ GwsInfo
    \/ GwsExtractFileId
    \/ GwsMarkdownFile
    \/ GwsGetDriveService
    \/ GwsGetFileInfo
    \/ GwsFetchCannotOpen
    \/ GwsFetch
    \/ GwsConvert
    \/ GwsWrite
    \/ GwsMarkdownToDocx
    \/ GwsUpload
    \/ GwsList

SpecGws == InitGws /\ [][NextGws]_vars

----------------------------------------------------------------------------
(* convert_file_content of convert-to-markdown as a function of what the   *)
(* converters do with the file, for comparison with convert_to_markdown.   *)

\* The first of two optional contents that is non-empty; RuntimeError when
\* neither is; the exception of whichever raised on the way.
first_content(primary, secondary) ==
    IF primary.kind = "raise" \/ Truthy(primary) THEN primary
    ELSE IF secondary.kind = "raise" \/ Truthy(secondary) THEN secondary
    ELSE Raise("RuntimeError")

\* convert_file_content(path, mode, hybrid) for a path with this suffix, when
\* markitdown does mk_text (and, for the OCR run of the hybrid path, mk_ocr)
\* and pandoc does pd.
convert_file_content(suffix, hybrid, mk_text, mk_ocr, pd) ==
    IF lower(suffix) \in PANDOC_FORMATS
    THEN first_content(run_pandoc(pd), run_markitdown(mk_text))
    ELSE IF lower(suffix) = Pdf /\ hybrid
    THEN merge_extractions(run_markitdown(mk_text), run_markitdown(mk_ocr))
    ELSE first_content(run_markitdown(mk_text), run_pandoc(pd))

----------------------------------------------------------------------------
(* Claims about google-workspace-convert, checked under SpecGws.           *)

IsGws == prog = "google-workspace-convert"
\* An exception left main.
MainRaised == \E i \in DOMAIN printed : printed[i] = "Traceback"
LastCall == calls[Len(calls)]
\* The requested operation ran to its end: the markdown file is written, the
\* Google Doc is created, the listing is received, the sharing instructions
\* are printed.
GwsCompleted ==
    CASE argv.cmd = "to-markdown" -> out_file # NotWritten
      [] argv.cmd = "to-gdoc" ->
            calls # <<>> /\ LastCall.op = "files.create" /\ LastCall.outcome = "ok"
      [] argv.cmd = "list" ->
            calls # <<>> /\ LastCall.op = "files.list"
                /\ LastCall.outcome \in {"ok", "ok_no_files"}
      [] argv.cmd = "info" ->
            \E i \in DOMAIN printed : printed[i] = "Service Account Email"
      [] OTHER -> FALSE

\* C12: when the process has ended, main has returned (no exception left
\* it), with 0 exactly when the requested operation ran to its end and with 1
\* when anything raised on the way or no subcommand was given.
C12_MainReturns ==
    (IsGws /\ pc = "exit")
        => /\ ~MainRaised
           /\ exit_status = (IF GwsCompleted THEN {0} ELSE {1})

\* The indices of the media requests and of the conversions among the calls.
Fetches ==
    {i \in DOMAIN calls :
        calls[i].callee = "drive" /\ calls[i].op \in {"export_media", "get_media"}}
Conversions == {i \in DOMAIN calls : calls[i].callee = "markitdown"}
\* The four Workspace-native MIME types.
WorkspaceNative ==
    {"application/vnd.google-apps.document",
     "application/vnd.google-apps.spreadsheet",
     "application/vnd.google-apps.presentation",
     "application/vnd.google-apps.drawing"}

\* C17: in to-markdown there is at most one media request and at most one
\* conversion; the media request is the second call, after the metadata
\* lookup succeeded, and is an export exactly when the MIME type the lookup
\* reported is Workspace-native, a direct download otherwise; the conversion
\* is the third call, after the media request completed; and when the lookup
\* or the media request failed there is no conversion and no output file.
C17_FetchThenConvert ==
    (IsGws /\ argv.cmd = "to-markdown")
        => /\ Cardinality(Fetches) <= 1
           /\ Cardinality(Conversions) <= 1
           /\ \A i \in Fetches :
                /\ i = 2
                /\ calls[1].op = "files.get" /\ calls[1].outcome = "ok"
                /\ calls[2].op = (IF calls[1].info.mime \in WorkspaceNative
                                  THEN "export_media" ELSE "get_media")
           /\ \A i \in Conversions :
                /\ i = 3
                /\ Fetches = {2}
                /\ calls[2].outcome = "ok"
           /\ (\E i \in DOMAIN calls :
                    calls[i].callee = "drive" /\ calls[i].outcome # "ok")
                => Conversions = {} /\ out_file = NotWritten
           /\ out_file # NotWritten => Conversions = {3}

\* A case of C17: a Google Sheet was looked up, exported in two chunks and
\* converted, and the markdown written.
C17_Witness ==
    /\ IsGws /\ argv.cmd = "to-markdown"
    /\ Len(calls) = 3
    /\ calls[1].info.mime = "application/vnd.google-apps.spreadsheet"
    /\ calls[2].op = "export_media" /\ calls[2].chunks = 2
    /\ calls[3].callee = "markitdown"
    /\ out_file # NotWritten

\* What markitdown did in conversion i, and the suffix of the file it was given.
ConverterOutcome(i) == [kind |-> calls[i].outcome, stdout |-> calls[i].stdout]
FetchedSuffix(i) == export_suffix(calls[i].info)
\* Two results are the same: the same content, or both an exception.
SameResult(a, b) ==
    IF a.kind = "raise" \/ b.kind = "raise" THEN a.kind = b.kind ELSE a = b

----------------------------------------------------------------------------
(* generate-image/scripts/generate.py: one invocation.                     *)

\* GOOGLE_CLOUD_PROJECT and CLOUDSDK_CORE_PROJECT: set to a non-empty value or not.
ImageEnvironments == [google_cloud_project : BOOLEAN, cloudsdk_core_project : BOOLEAN]

\* --input: absent, an existing image, a path with no file; --output: absent,
\* a path with a suffix, a path without one.
ImageArgs ==
    [input_image : {"none", "exists", "missing"},
     output : {"none", "with_suffix", "no_suffix"}]

\* The parts of a candidate: text, or inline data (two payloads, to tell them apart).
ResponseParts ==
    {[inline_data |-> "None", mime_type |-> ""],
     [inline_data |-> "A", mime_type |-> "image/png"],
     [inline_data |-> "B", mime_type |-> "image/jpeg"]}

\* A candidate: no content, or content with up to MaxParts parts.
NoContent == [content |-> "None", parts |-> <<>>]
Candidates ==
    {NoContent}
        \cup {[content |-> "Content", parts |-> ps] :
                ps \in UNION {[1..k -> ResponseParts] : k \in 0..MaxParts}}

\* response.candidates: None, or a list of zero, one or two candidates.
NoCandidates == [candidates |-> "None", list |-> <<>>]
CandidateLists ==
    {NoCandidates}
        \cup {[candidates |-> "list", list |-> l] :
                l \in {<<>>} \cup {<<c>> : c \in Candidates}
                        \cup {<<c, d>> : c \in Candidates, d \in Candidates}}

\* The inline payloads of a list of parts, in order.
RECURSIVE inline_parts(_)
inline_parts(parts) ==
    IF parts = <<>> THEN <<>>
    ELSE (IF Head(parts).inline_data # "None" THEN <<Head(parts)>> ELSE <<>>)
            \o inline_parts(Tail(parts))

\* The inline payloads of a list of candidates, in the order the two loops
\* of generate_image visit them; a candidate without content or without
\* parts is passed over.
RECURSIVE inline_payloads(_)
inline_payloads(candidates) ==
    IF candidates = <<>> THEN <<>>
    ELSE (IF Head(candidates).content = "None" THEN <<>>
          ELSE inline_parts(Head(candidates).parts))
            \o inline_payloads(Tail(candidates))

\* Faulty variant of saved_payloads: the last payload is saved.
saved_payloads_last(candidates) ==
    LET found == inline_payloads(candidates)
    IN  IF found = <<>> THEN <<>> ELSE <<found[Len(found)]>>

\* The payloads generate_image writes: it returns from inside the loops on
\* the first part with inline data.
saved_payloads(candidates) ==
    LET found == inline_payloads(candidates)
    IN  IF found = <<>> THEN <<>> ELSE <<Head(found)>>

\* parts: the input image, if any, then the prompt.
request_parts(input_image) ==
    IF input_image # "none" THEN <<"image", "text">> ELSE <<"text">>

\* client.models.generate_content(...)
GenerateCall(o, candidates) ==
    [callee |-> "genai", op |-> "generate_content", parts |-> request_parts(argv.input_image),
     outcome |-> o, candidates |-> candidates]

InitImage ==
    /\ prog = "generate-image"
    /\ argv \in ImageArgs
    /\ env \in ImageEnvironments
    /\ pc = "image_main"
    /\ calls = <<>>
    /\ printed = <<>>
    /\ exit_status = {}
    /\ out_file = NotWritten
    /\ text_content = Unset
    /\ ocr_content = Unset
    /\ md_content = Unset
    /\ session = NoSession
    /\ server = NoServer

ImageFrame == UNCHANGED <<prog, server, argv, env, session, text_content, ocr_content, md_content>>

\* project = GOOGLE_CLOUD_PROJECT or CLOUDSDK_CORE_PROJECT
HasProject == env.google_cloud_project \/ env.cloudsdk_core_project

\* generate_image: no project in the environment.
ImageNoProject ==
    /\ pc = "image_main"
    /\ ~HasProject
    /\ MainExcept(<<>>, "GOOGLE_CLOUD_PROJECT or CLOUDSDK_CORE_PROJECT env var required")
    /\ UNCHANGED <<calls, out_file>>
    /\ ImageFrame

\* generate_image: genai.Client(vertexai=True, ...) is built, or raises.
ImageClient ==
    /\ pc = "image_main"
    /\ HasProject
    /\ \/ pc' = "image_parts" /\ UNCHANGED <<printed, exit_status>>
       \/ MainExcept(<<>>, "genai.Client")
    /\ UNCHANGED <<calls, out_file>>
    /\ ImageFrame

\* generate_image: the parts are built; load_image_as_part raises when the
\* input image does not exist.
ImageBuildParts ==
    /\ pc = "image_parts"
    /\ IF argv.input_image = "missing"
       THEN MainExcept(<<>>, "Image not found")
       ELSE pc' = "image_request" /\ UNCHANGED <<printed, exit_status>>
    /\ UNCHANGED <<calls, out_file>>
    /\ ImageFrame

\* generate_image: the request, and the search of the response for an image.
ImageGenerate ==
    /\ pc = "image_request"
    /\ \/ /\ calls' = Append(calls, GenerateCall("error", NoCandidates))
          /\ MainExcept(<<>>, "APIError")
       \/ \E candidates \in CandidateLists :
            /\ calls' = Append(calls, GenerateCall("ok", candidates))
            /\ CASE candidates = NoCandidates ->
                        MainExcept(<<"DEBUG: Response has no candidates.">>,
                                   "Model returned no candidates.")
                 [] candidates # NoCandidates
                        /\ saved_payloads(candidates.list) = <<>> ->
                        MainExcept(<<>>, "No image found in response")
                 [] OTHER ->
                        pc' = "image_save" /\ UNCHANGED <<printed, exit_status>>
    /\ UNCHANGED out_file
    /\ ImageFrame

\* The files of the process: the payloads written, in order.
Files(payloads) == [kind |-> "files", chars |-> payloads, exc |-> ""]

\* generate_image: save_path.write_bytes(image_bytes); print; return.
ImageSave ==
    /\ pc = "image_save"
    /\ \/ /\ out_file' = Files(saved_payloads(calls[Len(calls)].candidates.list))
          /\ Returns0("Image saved to:")
       \/ MainExcept(<<>>, "OSError") /\ UNCHANGED out_file
    /\ UNCHANGED calls
    /\ ImageFrame

NextImage ==
    \/ ImageNoProject
    \/ ImageClient
    \/ ImageBuildParts
    \/ ImageGenerate
    \/ ImageSave

SpecImage == InitImage /\ [][NextImage]_vars

----------------------------------------------------------------------------
(* Claims about generate-image, checked under SpecImage.                   *)

\* The generation requests among the calls.
Requests == {i \in DOMAIN calls : calls[i].callee = "genai"}
\* Part p of candidate c of the list cs carries inline data.
IsInline(cs, c, p) == cs[c].content # "None" /\ cs[c].parts[p].inline_data # "None"
\* The list cs has an inline payload somewhere.
HasInline(cs) == \E c \in DOMAIN cs : \E p \in DOMAIN cs[c].parts : IsInline(cs, c, p)
\* Part p of candidate c is the first inline payload of cs, candidate by
\* candidate and part by part.
IsFirstInline(cs, c, p) ==
    /\ IsInline(cs, c, p)
    /\ \A q \in 1..(p - 1) : ~IsInline(cs, c, q)
    /\ \A d \in 1..(c - 1) : \A q \in DOMAIN cs[d].parts : ~IsInline(cs, d, q)

\* C19: an invocation makes at most one generation request, and exactly one
\* once it is past its set-up; the request carries the input image, when one
\* is given, before the prompt; a file is saved only by a run that ends with
\* status 0, which saves exactly one file, holding the first inline payload of
\* the response in the order of candidates and parts; a response without
\* candidates or without any inline payload ends the run with the
\* RuntimeError reported and no file written; and without a project variable
\* the run fails before any request.
C19_OneRequestOneFile ==
    (prog = "generate-image")
        => /\ Cardinality(Requests) <= 1
           /\ pc \in {"image_save"} => Cardinality(Requests) = 1
           /\ (pc = "exit" /\ exit_status = {0}) => Cardinality(Requests) = 1
           /\ \A i \in Requests :
                calls[i].parts = (IF argv.input_image = "none"
                                  THEN <<"text">> ELSE <<"image", "text">>)
           /\ (~env.google_cloud_project /\ ~env.cloudsdk_core_project)
                => /\ Requests = {}
                   /\ pc = "exit" => exit_status = {1}
           /\ (pc = "exit" /\ exit_status = {0}) <=> out_file # NotWritten
           /\ out_file # NotWritten
                => /\ Len(out_file.chars) = 1
                   /\ LET cs == calls[1].candidates.list
                      IN  \E c \in DOMAIN cs : \E p \in DOMAIN cs[c].parts :
                            /\ IsFirstInline(cs, c, p)
                            /\ out_file.chars[1] = cs[c].parts[p]
           /\ \A i \in Requests :
                (calls[i].outcome = "ok"
                    /\ (calls[i].candidates.candidates = "None"
                        \/ ~HasInline(calls[i].candidates.list)))
                => /\ pc = "exit"
                   /\ exit_status = {1}
                   /\ out_file = NotWritten
                   /\ printed[Len(printed)] =
                        (IF calls[i].candidates.candidates = "None"
                         THEN "Error: Model returned no candidates."
                         ELSE "Error: No image found in response")

\* A case of C19: with an input image, the response has two candidates, the
\* first with a text part and image B, the second with image A; B is saved.
C19_Witness ==
    /\ prog = "generate-image"
    /\ argv.input_image = "exists"
    /\ pc = "exit" /\ exit_status = {0}
    /\ calls[1].parts = <<"image", "text">>
    /\ Len(calls[1].candidates.list) = 2
    /\ calls[1].candidates.list[1].parts
            = <<[inline_data |-> "None", mime_type |-> ""],
                [inline_data |-> "B", mime_type |-> "image/jpeg"]>>
    /\ calls[1].candidates.list[2].parts
            = <<[inline_data |-> "A", mime_type |-> "image/png"]>>
    /\ out_file.chars = <<[inline_data |-> "B", mime_type |-> "image/jpeg"]>>

----------------------------------------------------------------------------
(* Further claims about confluence.py and jira.py, checked under SpecCli.  *)

IsDelete == prog = "confluence" /\ argv.cmd = "delete"
\* The indices of the DELETE requests and of the confirmation prompts.
Deletes == {i \in DOMAIN calls : calls[i].callee = "http" /\ calls[i].method = "DELETE"}
Prompts == {i \in DOMAIN calls : calls[i].callee = "prompt"}
Confirmed(i) == calls[i].callee = "prompt" /\ calls[i].outcome = "ok" /\ calls[i].data.yes
Declined(i) == calls[i].callee = "prompt" /\ calls[i].outcome = "ok" /\ ~calls[i].data.yes

\* C22: in confluence delete a DELETE request is sent only with --force or
\* after the user confirmed the prompt; without --force the prompt comes
\* after the page was fetched, and with --force there is neither fetch nor
\* prompt; when the user declines, the prompt is the last call, no DELETE is
\* sent, "Cancelled" is printed and the process ends with status 0.
C22_DeleteNeedsConsent ==
    IsDelete
        => /\ \A i \in Deletes :
                argv.force \/ (\E j \in 1..(i - 1) : Confirmed(j))
           /\ \A j \in Prompts :
                /\ ~argv.force
                /\ j = 2
                /\ calls[1].callee = "http" /\ calls[1].method = "GET"
                /\ calls[1].outcome = "ok"
           /\ argv.force => \A i \in DOMAIN calls : i \in Deletes
           /\ \A j \in DOMAIN calls :
                Declined(j)
                => /\ j = Len(calls)
                   /\ Deletes = {}
                   /\ pc = "exit"
                   /\ exit_status = {0}
                   /\ printed # <<>> /\ printed[Len(printed)] = "Cancelled"

\* A case of C22: without --force the page was fetched and the user declined.
C22_Witness ==
    /\ IsDelete /\ ~argv.force
    /\ Len(calls) = 2
    /\ Declined(2)
    /\ pc = "exit"

IsTransition == prog = "jira" /\ argv.cmd = "transition"
\* The transition t is one the given status names: by its id, or by its name
\* in any letter case.
Matches(t, status) == t.id = status \/ SameIgnoringCase(t.name, status)

\* C23: in jira transition a POST is sent only as the second request, after
\* the transitions were fetched, and carries the id of the first transition
\* of the fetched list that the status names; when the fetched list has no
\* such transition, the fetch is the only request and the process ends with
\* status 1 after printing the names of the list.
C23_TransitionMatching ==
    IsTransition
        => /\ \A i \in DOMAIN HttpCalls :
                HttpCalls[i].method = "POST"
                => /\ i = 2
                   /\ HttpCalls[1].method = "GET"
                   /\ HttpCalls[1].outcome = "ok"
                   /\ LET trans == HttpCalls[1].data.list
                      IN  \E k \in DOMAIN trans :
                            /\ Matches(trans[k], argv.status)
                            /\ \A j \in 1..(k - 1) : ~Matches(trans[j], argv.status)
                            /\ HttpCalls[2].data.id = trans[k].id
           /\ (HttpCalls # <<>> /\ HttpCalls[1].outcome \in {"ok", "ok_no_match"}
                /\ \A k \in DOMAIN HttpCalls[1].data.list :
                        ~Matches(HttpCalls[1].data.list[k], argv.status))
                => /\ Len(HttpCalls) = 1
                   /\ pc = "exit"
                   /\ exit_status = {1}
                   /\ printed[Len(printed)] =
                        "Error: Transition not found. Available: "
                            \o available(HttpCalls[1].data.list)

\* A case of C23: the status "done" names both transitions of the fetched
\* list, DONE (41) before Done (11); the POST carried 41.
C23_Witness ==
    /\ IsTransition
    /\ argv.status = <<"d", "o", "n", "e">>
    /\ Len(HttpCalls) = 2
    /\ Len(HttpCalls[1].data.list) = 2
    /\ HttpCalls[1].data.list[1].id = <<"4", "1">>
    /\ HttpCalls[1].data.list[2].id = <<"1", "1">>
    /\ HttpCalls[2].data.id = <<"4", "1">>

IsCreate == prog = "confluence" /\ argv.cmd = "create"
\* The calls of markdown_to_storage among the calls.
StorageConversions ==
    {i \in DOMAIN calls : calls[i].callee = "pandoc" /\ calls[i].via = "markdown_to_storage"}

\* C29: confluence create without non-empty content from --body or
\* --body-file makes no HTTP request and ends with status 1; with non-empty
\* content (and a client) it makes exactly one request, a POST; for markdown
\* input the POST carries, as storage format, what markdown_to_storage made
\* of the content in the one conversion before it, and for any other format
\* the content as given, unconverted.
C29_CreateBody ==
    IsCreate
        => /\ argv.body \notin {"text", "file"}
                => /\ HttpCalls = <<>>
                   /\ pc = "exit" => exit_status = {1}
           /\ Len(HttpCalls) <= 1
           /\ (pc = "exit" /\ session # NoSession /\ argv.body \in {"text", "file"})
                => Len(HttpCalls) = 1
           /\ \A i \in DOMAIN HttpCalls :
                /\ HttpCalls[i].method = "POST"
                /\ IF argv.format = "markdown"
                   THEN /\ StorageConversions = {1}
                        /\ Len(calls) = 2
                        /\ HttpCalls[i].data.body = calls[1].data
                        /\ HttpCalls[i].data.body_format = "storage"
                   ELSE /\ StorageConversions = {}
                        /\ HttpCalls[i].data.body = Str(<<"a">>)
                        /\ HttpCalls[i].data.body_format = argv.format

\* A case of C29: markdown from a file was converted by pandoc and posted.
C29_Witness ==
    /\ IsCreate
    /\ argv.body = "file" /\ argv.format = "markdown"
    /\ Len(calls) = 2
    /\ calls[1].callee = "pandoc" /\ calls[1].outcome = "ok"
    /\ calls[2].method = "POST" /\ calls[2].outcome = "ok"
    /\ calls[2].data.body = calls[1].data
    /\ pc = "exit" /\ exit_status = {0}

----------------------------------------------------------------------------
(* A further claim about merge_extractions, checked under SpecMerge.       *)

\* The sequence s ends with the sequence t.
EndsWith(s, t) ==
    Len(s) >= Len(t) /\ SubSeq(s, Len(s) - Len(t) + 1, Len(s)) = t

\* C25: whenever the text extraction is non-empty, the result of
\* merge_extractions is a string that ends with the text extraction,
\* character for character, whatever the OCR extraction is.
C25_TextKept ==
    (Returned /\ text_content.kind = "str" /\ text_content.chars # <<>>)
        => /\ md_content.kind = "str"
           /\ EndsWith(md_content.chars, text_content.chars)

\* A case of C25: both extractions are non-empty, the text has surrounding
\* whitespace, and the result is the text alone: the OCR extraction is dropped.
C25_Witness ==
    /\ Returned
    /\ text_content = Str(<<" ", "a", " ">>)
    /\ ocr_content = Str(<<"a">>)
    /\ md_content = text_content

----------------------------------------------------------------------------
(* C26, C27: the file convert_file writes.                                  *)

\* C26: with no output path, convert_file of an existing input file writes the
\* file named like the input with the extension replaced by .md, and that file
\* is never the input file itself.
C26_OutputBesideInput ==
    (argv.input = "file" /\ out_file # NotWritten)
        => /\ OutputPath = [stem |-> InputPath.stem, suffix |-> Md]
           /\ OutputPath # InputPath

ConversionRaised ==
    /\ pc = "exit"
    /\ ConverterCalls # <<>>
    /\ md_content = Unset
DownloadFailed ==
    /\ pc = "exit"
    /\ argv.input = "gdoc_url"
    /\ ConverterCalls = <<>>

----------------------------------------------------------------------------
(* C28: to-gdoc converts before it uploads.                                 *)

Uploads == {i \in DOMAIN calls : calls[i].callee = "drive" /\ calls[i].op = "files.create"}
PandocRuns == {i \in DOMAIN calls : calls[i].callee = "pandoc" /\ calls[i].op = "markdown_to_docx"}
PandocFailed == \E j \in PandocRuns : calls[j].outcome # "ok"

\* C28: in to-gdoc every upload request comes after a pandoc run that ended
\* with status 0; when the markdown file is missing, the credentials are
\* missing or pandoc fails (non-zero exit, missing binary, timeout), no upload
\* request is made and main returns 1.
C28_ConvertBeforeUpload ==
    (IsGws /\ argv.cmd = "to-gdoc")
        => /\ \A i \in Uploads :
                \E j \in PandocRuns : j < i /\ calls[j].outcome = "ok"
           /\ (argv.input = "missing" \/ env.credentials # "valid" \/ PandocFailed)
                => Uploads = {}
           /\ (pc = "exit"
                    /\ (argv.input = "missing" \/ env.credentials # "valid" \/ PandocFailed))
                => exit_status = {1} /\ ~MainRaised

\* A case of C28: the markdown file exists, the credentials are valid, pandoc
\* timed out, and the process ended with 1 without an upload.
C28_Witness ==
    /\ IsGws /\ argv.cmd = "to-gdoc"
    /\ argv.input = "exists"
    /\ env.credentials = "valid"
    /\ pc = "exit"
    /\ Len(calls) = 1
    /\ calls[1].op = "markdown_to_docx" /\ calls[1].outcome = "timeout"
    /\ exit_status = {1}

----------------------------------------------------------------------------
(* C24: the message JiraClient._request prints for an HTTP error.           *)

\* The text printed after "Error: ".
PrintedMessage == SubSeq(printed[1], 8, Len(printed[1]))

\* C24: whenever the error body is a JSON object with at least one entry in
\* errorMessages or at least one entry in errors, the printed message is
\* non-empty and contains every entry of errorMessages; when errorMessages
\* carries no message it contains every field-level error.
C24_ErrorMessage ==
    (/\ prog = "JiraClient._request" /\ pc = "exit"
     /\ argv.json
     /\ (argv.errorMessages # <<>> \/ argv.errors # <<>>))
        => /\ PrintedMessage # ""
           /\ \A i \in DOMAIN argv.errorMessages :
                 Contains(PrintedMessage, argv.errorMessages[i])
           /\ argv.errorMessages = <<>> =>
                 \A i \in DOMAIN argv.errors :
                    Contains(PrintedMessage, field_errors(argv.errors)[i])

----------------------------------------------------------------------------
(* C30: extract_file_id.                                                    *)

Extracted == prog = "extract_file_id" /\ pc = "returned"
\* A non-empty string of ID characters.
IsBareId(s) == s # "" /\ \A i \in 1..Len(s) : CharAt(s, i) \in IdChars
\* Pattern p matches s at i, capturing g: the literal at i, then g, the
\* longest run of ID characters there.
Captures(p, s, i, g) ==
    /\ g # ""
    /\ i + Len(patterns[p]) + Len(g) - 1 <= Len(s)
    /\ SubSeq(s, i, i + Len(patterns[p]) + Len(g) - 1) = patterns[p] \o g
    /\ IsBareId(g)
    /\ LET k == i + Len(patterns[p]) + Len(g)
       IN k > Len(s) \/ CharAt(s, k) \notin IdChars
PatternOccurs(p, s) ==
    \E i \in 1..Len(s) :
        /\ i + Len(patterns[p]) <= Len(s)
        /\ SubSeq(s, i, i + Len(patterns[p])) \in {patterns[p] \o c : c \in IdChars}
ReturnedAsIs == md_content.kind = "str" /\ md_content.chars = argv.url_or_id
RaisedValueError == md_content.kind = "raise" /\ md_content.exc = "ValueError"

\* C30 as stated: a bare file ID of any length is returned as it is, and
\* ValueError is raised only for an argument that is neither a bare ID nor
\* matched by a pattern.
C30_AsStated ==
    Extracted =>
        /\ IsBareId(argv.url_or_id) => ReturnedAsIs
        /\ RaisedValueError =>
                /\ ~IsBareId(argv.url_or_id)
                /\ \A p \in DOMAIN patterns : ~PatternOccurs(p, argv.url_or_id)

\* C30 amended: an argument without "/" that is longer than 20 characters is
\* returned as it is (a bare file ID of more than 20 characters in
\* particular); every other argument yields the ID captured by the leftmost
\* match of the first pattern in the list that occurs in it, and ValueError
\* exactly when no pattern occurs, which includes every bare ID of 20
\* characters or fewer.
C30_BareIdOrFirstPattern ==
    Extracted =>
        LET s == argv.url_or_id
            bare == ~Contains(s, "/") /\ Len(s) > MinBareIdLen
        IN /\ bare => ReturnedAsIs
           /\ (IsBareId(s) /\ Len(s) > MinBareIdLen) => ReturnedAsIs
           /\ (IsBareId(s) /\ Len(s) <= MinBareIdLen) => RaisedValueError
           /\ (~bare /\ md_content.kind = "str") =>
                \E p \in DOMAIN patterns, i \in 1..Len(s) :
                    /\ Captures(p, s, i, md_content.chars)
                    /\ \A q \in 1..(p - 1) : ~PatternOccurs(q, s)
                    /\ \A h \in 1..(i - 1) : ~MatchesAt(patterns[p], s, h)
           /\ RaisedValueError <=>
                (~bare /\ \A p \in DOMAIN patterns : ~PatternOccurs(p, s))

\* A case of C30: a document URL whose query string also matches the id=
\* pattern; the ID after /document/d/ is returned.
C30_Witness ==
    /\ Extracted
    /\ argv.url_or_id
          = "https://docs.google.com/document/d/" \o Repeat("a", MaxIdLen) \o "/edit?id=b"
    /\ md_content.kind = "str"
    /\ md_content.chars = Repeat("a", MaxIdLen)

----------------------------------------------------------------------------
(* C21: two concurrent updates of one page.                                 *)

Puts == {k \in DOMAIN calls : calls[k].callee = "http" /\ calls[k].method = "PUT"}
\* The GET of the invocation that sent request k.
GetOf(k) ==
    CHOOSE g \in DOMAIN calls : calls[g].via = calls[k].via /\ calls[g].method = "GET"
\* Another update was accepted between the GET and the PUT k of an invocation.
Overtaken(k) ==
    \E j \in Puts : GetOf(k) < j /\ j < k /\ calls[j].outcome = "ok"

\* C21 as stated: in every interleaving the version number of each PUT is
\* strictly greater than the page's version on the server when the PUT is
\* processed.
C21_AsStated ==
    prog = "confluence" /\ server # NoServer
        => \A k \in Puts : calls[k].data.number > calls[k].at

\* C21 amended: each PUT carries the version number its own invocation read
\* plus one; that number is strictly greater than the server's version when
\* the PUT is processed exactly when no update of the other invocation was
\* accepted between this invocation's GET and its PUT; when one was, the PUT
\* carries a number the server already holds, the server refuses it and the
\* invocation exits with 1.
C21_PutCarriesReadVersionPlusOne ==
    prog = "confluence" /\ server # NoServer
        => \A k \in Puts :
            /\ calls[k].data.number = version_number(calls[GetOf(k)].data) + 1
            /\ GetOf(k) < k
            /\ (calls[k].data.number > calls[k].at) <=> ~Overtaken(k)
            /\ Overtaken(k) =>
                  /\ calls[k].data.number = calls[k].at
                  /\ calls[k].outcome # "ok"
                  /\ exit_status[calls[k].via] = {1}

\* A case of C21: both invocations read the page, the first update is
\* accepted, the second carries the version the server now holds.
C21_Witness ==
    /\ prog = "confluence" /\ server # NoServer
    /\ Len(calls) = 4
    /\ calls[1].method = "GET" /\ calls[2].method = "GET"
    /\ calls[1].via # calls[2].via
    /\ calls[3].method = "PUT" /\ calls[3].outcome = "ok"
    /\ calls[4].method = "PUT" /\ calls[4].data.number = server.version

====
